---- MODULE Spec2Model ----
(***************************************************************************)
(* A model of the cleaning pipelines of ai-in-a-box:                       *)
(*   backend/app/cleaning/utils.py     parsers                             *)
(*   backend/app/cleaning/synonyms.py  invoice header synonyms             *)
(*   backend/app/cleaning/pipeline.py  clean_invoices                      *)
(*   backend/app/cleaning/stock.py     clean_stock                         *)
(*                                                                         *)
(* Values.  A cell of a table is a record with a kind field k:             *)
(*   "none"  Python None                                                   *)
(*   "nan"   float('nan'), the missing value of a numeric pandas column    *)
(*           and of every empty cell read by pd.read_csv                   *)
(*   "str"   a Python str, field s                                         *)
(*   "int"   a Python int, field m                                         *)
(*   "float" a finite float, held as the decimal m * 10^e                  *)
(*   "date"  a datetime.date, fields y, mo, d                              *)
(*   "exc"   an exception leaving a function                               *)
(* Strings are TLA+ strings; a character is a string of length one.        *)
(* Floats are modelled in exact decimal arithmetic: binary representation  *)
(* error is outside the model.                                             *)
(***************************************************************************)
EXTENDS Integers, Sequences, FiniteSets, TLC

VARIABLES
    pc,          \* position of the running call
    arg,         \* parser specification: the argument of the call
    ret,         \* parser specification: what the call returned
    df_in,       \* the input table [cols, rows]
    cfg,         \* the configuration of the call
    df,          \* the working table [cols, rows]
    aux,         \* locals of the call: header_map, removed_neg, dup_removed, ...
    result       \* the returned result object

vars == <<pc, arg, ret, df_in, cfg, df, aux, result>>

----------------------------------------------------------------------------
(* Cells *)

NoneV == [k |-> "none"]
NaN == [k |-> "nan"]
Exc == [k |-> "exc"]
Str(s) == [k |-> "str", s |-> s]
IntV(n) == [k |-> "int", m |-> n]
Flt(mant, ex) == [k |-> "float", m |-> mant, e |-> ex]
DateV(yy, mm, dd) == [k |-> "date", y |-> yy, mo |-> mm, d |-> dd]

\* pandas isna(): None and NaN are both missing values
IsNull(c) == c.k \in {"none", "nan"}

----------------------------------------------------------------------------
(* Characters and Python str methods *)

Char(s, i) == SubSeq(s, i, i)

\* the characters of the model in code point order
Alphabet == "\t !#$%&()*+,-./0123456789:;<=>?@ABCDEFGHIJKLMNOPQRSTUVWXYZ[]^_abcdefghijklmnopqrstuvwxyz{|}~"
UpperLetters == "ABCDEFGHIJKLMNOPQRSTUVWXYZ"
LowerLetters == "abcdefghijklmnopqrstuvwxyz"
DigitChars == "0123456789"

\* position of character c in string t, 0 when absent
RECURSIVE IndexFrom(_, _, _)
IndexFrom(t, c, i) ==
    IF i > Len(t) THEN 0
    ELSE IF Char(t, i) = c THEN i
    ELSE IndexFrom(t, c, i + 1)

Index(t, c) == IndexFrom(t, c, 1)
InStr(t, c) == Index(t, c) > 0

\* code point order of the model's characters, as a lookup table
OrdOf == [c \in {Char(Alphabet, i) : i \in 1..Len(Alphabet)} |-> Index(Alphabet, c)]

\* ord(c); a character outside the alphabet sorts after it
Ord(c) == IF c \in DOMAIN OrdOf THEN OrdOf[c] ELSE Len(Alphabet) + 1

IsSpace(c) == c = " " \/ c = "\t"

\* the value of each decimal digit
DigitOf == [c \in {Char(DigitChars, i) : i \in 1..Len(DigitChars)} |-> Index(DigitChars, c) - 1]

IsDigit(c) == c \in DOMAIN DigitOf
DigitVal(c) == DigitOf[c]

\* the lower-case and upper-case letter of each letter
LowerOf == [c \in {Char(UpperLetters, i) : i \in 1..26} |-> Char(LowerLetters, Index(UpperLetters, c))]
UpperOf == [c \in {Char(LowerLetters, i) : i \in 1..26} |-> Char(UpperLetters, Index(LowerLetters, c))]

LowerChar(c) == IF c \in DOMAIN LowerOf THEN LowerOf[c] ELSE c
UpperChar(c) == IF c \in DOMAIN UpperOf THEN UpperOf[c] ELSE c

\* str.lower()
RECURSIVE Lower(_)
Lower(s) == IF s = "" THEN "" ELSE LowerChar(Char(s, 1)) \o Lower(SubSeq(s, 2, Len(s)))

\* str.upper()
RECURSIVE Upper(_)
Upper(s) == IF s = "" THEN "" ELSE UpperChar(Char(s, 1)) \o Upper(SubSeq(s, 2, Len(s)))

RECURSIVE LStrip(_)
LStrip(s) == IF s # "" /\ IsSpace(Char(s, 1)) THEN LStrip(SubSeq(s, 2, Len(s))) ELSE s

RECURSIVE RStrip(_)
RStrip(s) == IF s # "" /\ IsSpace(Char(s, Len(s))) THEN RStrip(SubSeq(s, 1, Len(s) - 1)) ELSE s

\* str.strip()
Strip(s) == RStrip(LStrip(s))

\* str.replace(a, b) for a single character a
RECURSIVE Replace(_, _, _)
Replace(s, a, b) ==
    IF s = "" THEN ""
    ELSE (IF Char(s, 1) = a THEN b ELSE Char(s, 1)) \o Replace(SubSeq(s, 2, Len(s)), a, b)

\* str.count(a) for a single character a
RECURSIVE Count(_, _)
Count(s, a) ==
    IF s = "" THEN 0
    ELSE (IF Char(s, 1) = a THEN 1 ELSE 0) + Count(SubSeq(s, 2, Len(s)), a)

\* re.sub(r"\s+", " ", s)
RECURSIVE CollapseSpace(_)
CollapseSpace(s) ==
    IF s = "" THEN ""
    ELSE IF IsSpace(Char(s, 1))
         THEN " " \o CollapseSpace(LStrip(s))
         ELSE Char(s, 1) \o CollapseSpace(SubSeq(s, 2, Len(s)))

\* re.sub(r"[^\d\-,.]", "", s)
RECURSIVE KeepNumeric(_)
KeepNumeric(s) ==
    IF s = "" THEN ""
    ELSE (IF IsDigit(Char(s, 1)) \/ InStr("-,.", Char(s, 1)) THEN Char(s, 1) ELSE "")
         \o KeepNumeric(SubSeq(s, 2, Len(s)))

\* a < b for Python str (code point order)
RECURSIVE StrLess(_, _)
StrLess(a, b) ==
    IF b = "" THEN FALSE
    ELSE IF a = "" THEN TRUE
    ELSE IF Char(a, 1) = Char(b, 1) THEN StrLess(SubSeq(a, 2, Len(a)), SubSeq(b, 2, Len(b)))
    ELSE Ord(Char(a, 1)) < Ord(Char(b, 1))

----------------------------------------------------------------------------
(* Floats as decimals m * 10^e, kept normalised: m has no trailing zero *)

RECURSIVE Pow10(_)
Pow10(n) == IF n <= 0 THEN 1 ELSE 10 * Pow10(n - 1)

RECURSIVE NormF(_, _)
NormF(mant, ex) ==
    IF mant = 0 THEN Flt(0, 0)
    ELSE IF mant % 10 = 0 THEN NormF(mant \div 10, ex + 1)
    ELSE Flt(mant, ex)

AbsI(n) == IF n < 0 THEN -n ELSE n
MinI(a, b) == IF a < b THEN a ELSE b

\* the mantissa of a at exponent ex <= a.e
Scaled(a, ex) == a.m * Pow10(a.e - ex)

FAdd(a, b) == LET ex == MinI(a.e, b.e) IN NormF(Scaled(a, ex) + Scaled(b, ex), ex)
FSub(a, b) == LET ex == MinI(a.e, b.e) IN NormF(Scaled(a, ex) - Scaled(b, ex), ex)
FMul(a, b) == NormF(a.m * b.m, a.e + b.e)
FAbs(a) == Flt(AbsI(a.m), a.e)
FLess(a, b) == LET ex == MinI(a.e, b.e) IN Scaled(a, ex) < Scaled(b, ex)
FLeq(a, b) == LET ex == MinI(a.e, b.e) IN Scaled(a, ex) <= Scaled(b, ex)

\* round(x, 2): to the nearest multiple of 0.01, a tie to the even one
RoundDiv(neg, q, r, p) ==
    NormF((IF neg THEN -1 ELSE 1)
          * (IF 2 * r > p \/ (2 * r = p /\ q % 2 = 1) THEN q + 1 ELSE q), -2)

RoundAt(neg, n, p) == RoundDiv(neg, n \div p, n % p, p)

Round2(a) == IF a.e >= -2 THEN a ELSE RoundAt(a.m < 0, AbsI(a.m), Pow10(-2 - a.e))

Zero == Flt(0, 0)

\* the decimal digits of n >= 0
RECURSIVE DigitsStr(_)
DigitsStr(n) ==
    IF n < 10 THEN Char(DigitChars, n + 1)
    ELSE DigitsStr(n \div 10) \o Char(DigitChars, (n % 10) + 1)

RECURSIVE Zeros(_)
Zeros(n) == IF n <= 0 THEN "" ELSE "0" \o Zeros(n - 1)

\* n >= 0 in at least w digits
PadStr(s, w) == Zeros(w - Len(s)) \o s

Pad(n, w) == PadStr(DigitsStr(n), w)

\* str(n) for an int
IntStr(n) == IF n < 0 THEN "-" \o DigitsStr(-n) ELSE DigitsStr(n)

\* str(x) for a finite float: repr's shortest digits, in exponent notation
\* when the decimal point is left of 10^-4 or right of 10^16
FloatFixed(ds, n, decpt) ==
    IF decpt <= 0 THEN "0." \o Zeros(-decpt) \o ds
    ELSE IF decpt >= n THEN ds \o Zeros(decpt - n) \o ".0"
    ELSE SubSeq(ds, 1, decpt) \o "." \o SubSeq(ds, decpt + 1, n)

FloatExp(ds, n, decpt) ==
    Char(ds, 1)
    \o (IF n > 1 THEN "." \o SubSeq(ds, 2, n) ELSE "")
    \o "e" \o (IF decpt - 1 < 0 THEN "-" ELSE "+")
    \o Pad(AbsI(decpt - 1), 2)

\* the digits ds scaled by 10^ex
FloatRepr(ds, decpt) ==
    IF -4 < decpt /\ decpt <= 16
    THEN FloatFixed(ds, Len(ds), decpt)
    ELSE FloatExp(ds, Len(ds), decpt)

FloatDigits(ds, ex) == FloatRepr(ds, Len(ds) + ex)

FloatStr(a) ==
    IF a.m = 0 THEN "0.0"
    ELSE (IF a.m < 0 THEN "-" ELSE "") \o FloatDigits(DigitsStr(AbsI(a.m)), a.e)

\* date.isoformat()
IsoFormat(dt) == Pad(dt.y, 4) \o "-" \o Pad(dt.mo, 2) \o "-" \o Pad(dt.d, 2)

\* str(x)
PyStr(x) ==
    CASE x.k = "none" -> "None"
      [] x.k = "nan" -> "nan"
      [] x.k = "str" -> x.s
      [] x.k = "int" -> IntStr(x.m)
      [] x.k = "float" -> FloatStr(x)
      [] x.k = "date" -> IsoFormat(x)

AllDigits(s) == \A i \in 1..Len(s) : IsDigit(Char(s, i))

\* int(s) for a string of digits
RECURSIVE DigitsVal(_)
DigitsVal(s) ==
    IF s = "" THEN 0
    ELSE 10 * DigitsVal(SubSeq(s, 1, Len(s) - 1)) + DigitVal(Char(s, Len(s)))

\* float(s) for s over digits, "-" and ".": a float, or ValueError
FloatOfParts(neg, ip, fp) ==
    IF AllDigits(ip) /\ AllDigits(fp) /\ ip \o fp # ""
    THEN NormF((IF neg THEN -1 ELSE 1) * DigitsVal(ip \o fp), -Len(fp))
    ELSE Exc

FloatOfUnsigned(neg, t, dot) ==
    FloatOfParts(neg,
                 IF dot = 0 THEN t ELSE SubSeq(t, 1, dot - 1),
                 IF dot = 0 THEN "" ELSE SubSeq(t, dot + 1, Len(t)))

FloatOfSigned(neg, t) == FloatOfUnsigned(neg, t, Index(t, "."))

PyFloat(s) ==
    IF s # "" /\ Char(s, 1) = "-"
    THEN FloatOfSigned(TRUE, SubSeq(s, 2, Len(s)))
    ELSE FloatOfSigned(FALSE, s)

----------------------------------------------------------------------------
(* backend/app/cleaning/utils.py *)

CURRENCY_MAP ==
    ("$" :> "USD") @@ ("€" :> "EUR") @@ ("£" :> "GBP") @@ ("MAD" :> "MAD")
    @@ ("usd" :> "USD") @@ ("eur" :> "EUR") @@ ("gbp" :> "GBP")

\* dict.get(key, default)
DictGet(dict, key, default) == IF key \in DOMAIN dict THEN dict[key] ELSE default

norm_header(h) == CollapseSpace(Lower(Strip(h)))

DaysInMonth(yy, mm) ==
    IF mm \in {4, 6, 9, 11} THEN 30
    ELSE IF mm = 2
         THEN (IF yy % 4 = 0 /\ (yy % 100 # 0 \/ yy % 400 = 0) THEN 29 ELSE 28)
         ELSE 31

\* the three fields of a date string split at "-" or "/", or <<>> when the
\* string does not have exactly three all-digit fields
DateFieldsOf(a, b, c) ==
    IF a # "" /\ b # "" /\ c # ""
       /\ AllDigits(a) /\ AllDigits(b) /\ AllDigits(c)
       /\ Len(a) <= 4 /\ Len(b) <= 2 /\ Len(c) <= 4
    THEN <<a, b, c>>
    ELSE <<>>

DateTail(a, u, j) ==
    IF j > 0 THEN DateFieldsOf(a, SubSeq(u, 1, j - 1), SubSeq(u, j + 1, Len(u))) ELSE <<>>

DateTailOf(a, u) == DateTail(a, u, Index(u, "-"))

DateHead(t, i) ==
    IF i > 0 THEN DateTailOf(SubSeq(t, 1, i - 1), SubSeq(t, i + 1, Len(t))) ELSE <<>>

DateSplit(t) == DateHead(t, Index(t, "-"))

DateFields(s) == DateSplit(Replace(s, "/", "-"))

\* dateutil.parser.parse(s, dayfirst=False).date() for the numeric date forms
\* Y-M-D, M-D-Y and D-M-Y (first field over 12) with "-" or "/" between the
\* fields: the date, or ParserError.  Any other string of the model's inputs
\* is one dateutil rejects.
DateOfYmd(yy, mm, dd) ==
    IF yy >= 1 /\ mm \in 1..12 /\ dd >= 1 /\ dd <= DaysInMonth(yy, mm)
    THEN DateV(yy, mm, dd)
    ELSE Exc

DateOfNumbers(f, a, b, c) ==
    IF Len(f[1]) = 4 /\ Len(f[3]) <= 2 THEN DateOfYmd(a, b, c)
    ELSE IF Len(f[1]) <= 2 /\ Len(f[3]) = 4
         THEN (IF a > 12 THEN DateOfYmd(c, b, a) ELSE DateOfYmd(c, a, b))
         ELSE Exc

DateOfFields(f) ==
    IF f = <<>> THEN Exc
    ELSE DateOfNumbers(f, DigitsVal(f[1]), DigitsVal(f[2]), DigitsVal(f[3]))

DateutilParse(s) == DateOfFields(DateFields(Strip(s)))

IsoOrNoneOnError(dt) == IF dt = Exc THEN NoneV ELSE Str(IsoFormat(dt))

\* parse_date on s = str(x)
parse_date_text(s) == IF Strip(s) = "" THEN NoneV ELSE IsoOrNoneOnError(DateutilParse(s))

parse_date(x) == IF x.k = "none" THEN NoneV ELSE parse_date_text(PyStr(x))

\* the string parse_number hands to float()
\* lines 27-28: one comma and no point makes the comma the decimal point
DecimalComma(s) ==
    IF Count(s, ",") = 1 /\ Count(s, ".") = 0 THEN Replace(s, ",", ".") ELSE s

\* the string parse_number hands to float(), from s = str(x).strip()
NumberText(s) == Replace(DecimalComma(KeepNumeric(Replace(s, " ", ""))), ",", "")

FloatOrNone(v) == IF v = Exc THEN NoneV ELSE v

\* parse_number from s = str(x).strip() on
parse_number_text(s) == IF s = "" THEN NoneV ELSE FloatOrNone(PyFloat(NumberText(s)))

parse_number(x) == IF x.k = "none" THEN NoneV ELSE parse_number_text(Strip(PyStr(x)))

currency_of_key(key, upper) ==
    Str(DictGet(CURRENCY_MAP, key, DictGet(CURRENCY_MAP, upper, upper)))

\* currency_code from k = str(x).strip() on
currency_code_text(key) == IF key = "" THEN NoneV ELSE currency_of_key(key, Upper(key))

currency_code(x) == IF x.k = "none" THEN NoneV ELSE currency_code_text(Strip(PyStr(x)))

----------------------------------------------------------------------------
(* backend/app/cleaning/synonyms.py *)

HEADER_SYNONYMS ==
    ("invoice no" :> "invoice_id") @@ ("invoice number" :> "invoice_id")
    @@ ("invoice" :> "invoice_id") @@ ("invoice#" :> "invoice_id")
    @@ ("invoice_num" :> "invoice_id") @@ ("invid" :> "invoice_id")
    @@ ("inv_id" :> "invoice_id") @@ ("id facture" :> "invoice_id")
    @@ ("date" :> "issue_date") @@ ("invoice date" :> "issue_date")
    @@ ("due" :> "due_date") @@ ("due date" :> "due_date")
    @@ ("client" :> "customer_name") @@ ("client name" :> "customer_name")
    @@ ("customer" :> "customer_name") @@ ("customer name" :> "customer_name")
    @@ ("customername" :> "customer_name") @@ ("company" :> "customer_name")
    @@ ("customer id" :> "customer_id")
    @@ ("item" :> "item_description") @@ ("description" :> "item_description")
    @@ ("qty" :> "quantity") @@ ("quantity" :> "quantity")
    @@ ("price" :> "unit_price") @@ ("unit price" :> "unit_price")
    @@ ("line total" :> "line_total")
    @@ ("subtotal" :> "total_before_tax") @@ ("sub total" :> "total_before_tax")
    @@ ("ht" :> "total_before_tax")
    @@ ("grand total" :> "total_amount") @@ ("ttc" :> "total_amount")
    @@ ("amount" :> "total_amount") @@ ("total" :> "total_amount")
    @@ ("tax" :> "tax_amount") @@ ("tva" :> "tax_amount")
    @@ ("tax rate" :> "tax_rate")
    @@ ("currency" :> "currency") @@ ("status" :> "status")

CANONICAL_ORDER ==
    << "invoice_id", "issue_date", "due_date",
       "customer_name", "customer_id",
       "item_description", "quantity", "unit_price", "line_total",
       "currency", "tax_rate", "tax_amount",
       "total_before_tax", "total_amount",
       "status" >>

SeqRange(s) == {s[i] : i \in 1..Len(s)}

CANONICAL == SeqRange(CANONICAL_ORDER)

----------------------------------------------------------------------------
(* backend/app/cleaning/stock.py: names *)

INTERNAL_ISSUES_COL == "__aibox_issues"
INTERNAL_EXP_DATE_COL == "__aibox_exp_dt"

STOCK_HEADER_SYNONYMS ==
    ("sku" :> "sku") @@ ("product" :> "name") @@ ("product name" :> "name")
    @@ ("name" :> "name") @@ ("item" :> "name")
    @@ ("qty" :> "qty_on_hand") @@ ("quantity" :> "qty_on_hand")
    @@ ("qty_on_hand" :> "qty_on_hand") @@ ("on hand" :> "qty_on_hand")
    @@ ("onhand" :> "qty_on_hand")
    @@ ("reorder_point" :> "reorder_point") @@ ("reorder point" :> "reorder_point")
    @@ ("min qty" :> "reorder_point") @@ ("minimum qty" :> "reorder_point")
    @@ ("expiry" :> "expiry_date") @@ ("expiry date" :> "expiry_date")
    @@ ("expiration" :> "expiry_date") @@ ("expiration date" :> "expiry_date")
    @@ ("expire date" :> "expiry_date") @@ ("best before" :> "expiry_date")
    @@ ("bbd" :> "expiry_date")
    @@ ("supplier" :> "supplier") @@ ("vendor" :> "supplier")

CANONICAL_ORDER_STOCK ==
    << "sku", "name", "supplier",
       "qty_on_hand", "reorder_point",
       "expiry_date",
       "__issues" >>

----------------------------------------------------------------------------
(* Header mapping *)

\* map_header_label with the arguments of replace swapped
map_header_label_swapped(c) ==
    LET key == norm_header(c)
    IN  IF key \in DOMAIN HEADER_SYNONYMS /\ HEADER_SYNONYMS[key] # ""
        THEN HEADER_SYNONYMS[key]
        ELSE Replace(key, "_", " ")

\* the name map_headers gives one column label (pipeline.py lines 12-14)
map_header_label(c) ==
    LET key == norm_header(c)
    IN  IF key \in DOMAIN HEADER_SYNONYMS /\ HEADER_SYNONYMS[key] # ""
        THEN HEADER_SYNONYMS[key]
        ELSE Replace(key, " ", "_")

\* a renaming keyed by the mapped name: a label whose mapped name an earlier
\* label already has loses its column
map_headers_merged(cols) ==
    LET names == [i \in 1..Len(cols) |-> map_header_label(cols[i])]
        first == {i \in 1..Len(cols) : \A j \in 1..(i - 1) : names[j] # names[i]}
    IN  [k \in 1..Cardinality(first) |->
            names[CHOOSE i \in first : Cardinality({j \in first : j <= i}) = k]]

\* df.rename(columns=rename): every label is renamed in place
map_headers(cols) == [i \in 1..Len(cols) |-> map_header_label(cols[i])]

\* the name _map_headers gives one column label (stock.py lines 53-55)
stock_header_label(c) ==
    LET key == norm_header(c)
    IN  DictGet(STOCK_HEADER_SYNONYMS, key, Replace(key, " ", "_"))

_map_headers(cols) == [i \in 1..Len(cols) |-> stock_header_label(cols[i])]

----------------------------------------------------------------------------
(* Parser specification: one call of a parser or header mapper on one value *)

\* values a cell or a column label can hold
NumberTexts ==
    { "2", "-1", "50", "1,5", "1,234.50", "$1,000.50", " 12 ", "12abc", "1e5",
      "0.00001", "-.5", "1,2,3", "abc", "", "  ", "\t", "1-2", "--", ".", "1.2.3", "-", "," }

DateTexts ==
    { "2025/09/01", "2025-09-30", "09/03/2025", "13/01/2025", " 2025-09-02 ",
      "2025-02-30", "13/45/2025", "2025-13-01", "not a date", "abc" }

CurrencyTexts == { "$", "usd", "USD", "eur", " gbp ", "mad", "MAD", "Eur", "cad", "€" }

LabelTexts ==
    CANONICAL \cup SeqRange(CANONICAL_ORDER_STOCK) \cup DOMAIN HEADER_SYNONYMS
    \cup DOMAIN STOCK_HEADER_SYNONYMS
    \cup { "Invoice No", "  Unit   Price ", "Qty", "TVA", "Due\tDate", "invoice num",
           "Inv ID", "My Column", "qty on hand", "Reorder Point", "notes" }

NonTextValues ==
    { NoneV, NaN, IntV(2), IntV(-1), IntV(0), Flt(2, 0), Flt(-15, -1), Flt(1, -5),
      Flt(1, -4), Flt(12345, -1), Flt(0, 0) }

ParserInputs ==
    {Str(s) : s \in NumberTexts \cup DateTexts \cup CurrencyTexts \cup LabelTexts}
    \cup NonTextValues

NoCall == [fn |-> "none", val |-> NoneV]

NoTable == [cols |-> <<>>, rows |-> <<>>]
NoCfg == [kind |-> "none"]
NoAux == [kind |-> "none"]
NoResult == [kind |-> "none"]

InitParsers ==
    /\ pc = "call"
    /\ arg \in ParserInputs
    /\ ret = NoCall
    /\ df_in = NoTable
    /\ cfg = NoCfg
    /\ df = NoTable
    /\ aux = NoAux
    /\ result = NoResult

Returns(fn, val) ==
    /\ pc = "call"
    /\ pc' = "returned"
    /\ ret' = [fn |-> fn, val |-> val]
    /\ UNCHANGED <<arg, df_in, cfg, df, aux, result>>

CallParseNumber == Returns("parse_number", parse_number(arg))
\* parse_date is called on the values DateutilParse models
DateInputs == {Str(s) : s \in DateTexts \cup {"", "  ", "\t"}} \cup {NoneV, NaN}

CallParseDate == arg \in DateInputs /\ Returns("parse_date", parse_date(arg))
CallCurrencyCode == Returns("currency_code", currency_code(arg))
CallMapHeaders == Returns("map_headers", Str(map_headers(<<PyStr(arg)>>)[1]))
CallMapHeadersStock == Returns("_map_headers", Str(_map_headers(<<PyStr(arg)>>)[1]))

NextParsers ==
    \/ CallParseNumber
    \/ CallParseDate
    \/ CallCurrencyCode
    \/ CallMapHeaders
    \/ CallMapHeadersStock

SpecParsers == InitParsers /\ [][NextParsers]_vars

----------------------------------------------------------------------------
(* Claims about the parsers and the header mappers *)

\* the canonical schemas as the specification lists them
InvoiceSchemaNames ==
    { "invoice_id", "issue_date", "due_date", "customer_name", "customer_id",
      "item_description", "quantity", "unit_price", "line_total", "currency",
      "tax_rate", "tax_amount", "total_before_tax", "total_amount", "status" }

StockSchemaNames ==
    { "sku", "name", "supplier", "qty_on_hand", "reorder_point", "expiry_date" }

\* C8: mapping a label that is already a canonical column name returns the
\* label unchanged: every canonical name of the invoice schema under
\* map_headers, every canonical name of the stock schema under _map_headers.
C8_CanonicalHeaderUnchanged ==
    (pc = "returned" /\ arg.k = "str") =>
        /\ (ret.fn = "map_headers" /\ arg.s \in InvoiceSchemaNames) => ret.val = arg
        /\ (ret.fn = "_map_headers" /\ arg.s \in StockSchemaNames) => ret.val = arg

\* a canonical name with underscores went through map_headers, and one
\* through _map_headers is covered by the same run
C8_Witness ==
    /\ pc = "returned"
    /\ ret.fn = "map_headers"
    /\ arg = Str("total_before_tax")
    /\ ret.val = Str("total_before_tax")

\* null and empty inputs: None, the missing value NaN of a pandas table, the
\* empty string and strings of white space
NullInputs == {NoneV, NaN, Str(""), Str("  "), Str("\t")}

MalformedNumbers == {Str(s) : s \in {"abc", "1-2", "--", ".", "1.2.3", "-", ",", "not a date"}}

MalformedDates ==
    {Str(s) : s \in {"2025-02-30", "13/45/2025", "2025-13-01", "not a date", "abc"}}

ParserNames == {"parse_number", "parse_date", "currency_code"}

\* C9: parse_number, parse_date and currency_code are total: no call raises,
\* a null or empty input gives null, and a malformed numeric or date string
\* gives null from the corresponding parser.
C9_ParsersTotalNullSafe ==
    (pc = "returned" /\ ret.fn \in ParserNames) =>
        /\ ret.val # Exc
        /\ arg \in NullInputs => ret.val = NoneV
        /\ (ret.fn = "parse_number" /\ arg \in MalformedNumbers) => ret.val = NoneV
        /\ (ret.fn = "parse_date" /\ arg \in MalformedDates) => ret.val = NoneV

\* what of C9 the code does satisfy: every call returns, None and empty strings
\* give null, malformed strings give null; NaN gives null from parse_number and
\* parse_date
C9_HoldsExceptCurrencyOfNaN ==
    (pc = "returned" /\ ret.fn \in ParserNames) =>
        /\ ret.val # Exc
        /\ (arg \in NullInputs /\ ~(ret.fn = "currency_code" /\ arg = NaN)) => ret.val = NoneV
        /\ (ret.fn = "parse_number" /\ arg \in MalformedNumbers) => ret.val = NoneV
        /\ (ret.fn = "parse_date" /\ arg \in MalformedDates) => ret.val = NoneV

----------------------------------------------------------------------------
(* Tables: pandas DataFrames as a sequence of column names and a sequence of
   rows, each row a sequence of cells in column order *)

HasCol(t, c) == \E i \in 1..Len(t.cols) : t.cols[i] = c

\* position of the first column named c
RECURSIVE FirstAt(_, _, _)
FirstAt(cols, c, i) == IF cols[i] = c THEN i ELSE FirstAt(cols, c, i + 1)

ColIdx(t, c) == FirstAt(t.cols, c, 1)

NRows(t) == Len(t.rows)

\* df[c] as a sequence of cells
ColumnAt(t, j) == [r \in 1..NRows(t) |-> t.rows[r][j]]

Column(t, c) == ColumnAt(t, ColIdx(t, c))

\* row.get(c): None when the row has no such label
RowGet(t, r, c) == IF HasCol(t, c) THEN t.rows[r][ColIdx(t, c)] ELSE NoneV

\* df[c] = vals: replaces the column, or appends a new last column
SetColAt(t, j, vals) ==
    [t EXCEPT !.rows = [r \in 1..NRows(t) |-> [t.rows[r] EXCEPT ![j] = vals[r]]]]

SetCol(t, c, vals) ==
    IF HasCol(t, c)
    THEN SetColAt(t, ColIdx(t, c), vals)
    ELSE [cols |-> Append(t.cols, c),
          rows |-> [r \in 1..NRows(t) |-> Append(t.rows[r], vals[r])]]

\* df[c] = None
NoneColumn(t) == [r \in 1..NRows(t) |-> NoneV]

\* the dtype pandas infers for the result of Series.map / DataFrame.apply: as
\* soon as one result is a float, the column is float64 and every None in it
\* is stored as NaN; a column with no number keeps its None objects
InferColumn(vals) ==
    IF \E r \in 1..Len(vals) : vals[r].k = "float"
    THEN [r \in 1..Len(vals) |-> IF vals[r].k = "none" THEN NaN ELSE vals[r]]
    ELSE vals

\* df[c].map(f)
MapCells(vals, f(_)) == InferColumn([r \in 1..Len(vals) |-> f(vals[r])])

MapColumn(t, c, f(_)) == MapCells(Column(t, c), f)

\* the subsequence of s at the positions satisfying keep
RECURSIVE SelectIdx(_, _, _)
SelectIdx(s, keep(_), i) ==
    IF i > Len(s) THEN <<>>
    ELSE (IF keep(i) THEN <<s[i]>> ELSE <<>>) \o SelectIdx(s, keep, i + 1)

\* df[mask].reset_index(drop=True)
FilterRows(t, keep(_)) == [t EXCEPT !.rows = SelectIdx(t.rows, keep, 1)]

\* df[ordered]: the columns named in ordered, each name taking every column
\* of that name
RECURSIVE PositionsOf(_, _, _)
PositionsOf(cols, c, i) ==
    IF i > Len(cols) THEN <<>>
    ELSE (IF cols[i] = c THEN <<i>> ELSE <<>>) \o PositionsOf(cols, c, i + 1)

RECURSIVE SelectPositions(_, _, _)
SelectPositions(cols, ordered, i) ==
    IF i > Len(ordered) THEN <<>>
    ELSE PositionsOf(cols, ordered[i], 1) \o SelectPositions(cols, ordered, i + 1)

SelectColumns(t, ordered) ==
    LET pos == SelectPositions(t.cols, ordered, 1)
    IN  [cols |-> [i \in 1..Len(pos) |-> t.cols[pos[i]]],
         rows |-> [r \in 1..NRows(t) |-> [i \in 1..Len(pos) |-> t.rows[r][pos[i]]]]]

\* "|".join(tags)
RECURSIVE Join(_)
Join(tags) ==
    IF tags = <<>> THEN ""
    ELSE IF Len(tags) = 1 THEN tags[1]
    ELSE tags[1] \o "|" \o Join(Tail(tags))

\* s.split("|")
RECURSIVE Split(_)
Split(s) ==
    LET i == Index(s, "|")
    IN  IF i = 0 THEN <<s>>
        ELSE <<SubSeq(s, 1, i - 1)>> \o Split(SubSeq(s, i + 1, Len(s)))

\* the tags of an issues cell: split, explode, drop the empty strings
TagsOf(cell) == SelectSeq(Split(cell.s), LAMBDA x : x # "")

\* Series.str.split("|").explode(), the empty strings dropped,
\* .value_counts().to_dict(): a tag maps to the number of exploded entries
TagCount(issues, tag) ==
    LET hits(r) == Cardinality({i \in 1..Len(TagsOf(issues[r])) : TagsOf(issues[r])[i] = tag})
        sum[r \in 0..Len(issues)] == IF r = 0 THEN 0 ELSE sum[r - 1] + hits(r)
    IN  sum[Len(issues)]

\* value_counts() of the issues cells as they are, without the split: a key is
\* a whole non-empty cell
ValueCounts_unsplit(issues) ==
    LET cells == {issues[r].s : r \in 1..Len(issues)} \ {""}
    IN  [cell \in cells |-> Cardinality({r \in 1..Len(issues) : issues[r].s = cell})]

ValueCounts(issues) ==
    LET tags == UNION {SeqRange(TagsOf(issues[r])) : r \in 1..Len(issues)}
    IN  [tag \in tags |-> TagCount(issues, tag)]

----------------------------------------------------------------------------
(* backend/app/cleaning/stock.py: clean_stock *)

\* datetime.utcnow().date() of the run
Today == DateV(2025, 9, 15)

\* date.toordinal() up to a constant: days since 0000-03-01
DateOrd(dt) ==
    LET yy == IF dt.mo <= 2 THEN dt.y - 1 ELSE dt.y
        mp == IF dt.mo > 2 THEN dt.mo - 3 ELSE dt.mo + 9
        doy == (153 * mp + 2) \div 5 + dt.d - 1
    IN  365 * yy + yy \div 4 - yy \div 100 + yy \div 400 + doy

\* pd.to_datetime(value, errors="coerce").date(), None for NaT: a number is
\* nanoseconds since 1970-01-01
ToDatetimeCoerce(value) ==
    CASE value.k = "str" ->
           LET dt == DateutilParse(value.s) IN IF dt = Exc THEN NoneV ELSE dt
      [] value.k = "nan" -> NoneV
      [] value.k \in {"int", "float"} ->
           IF value.m < 0 THEN DateV(1969, 12, 31) ELSE DateV(1970, 1, 1)
      [] OTHER -> NoneV

_safe_to_date(value) ==
    IF value.k = "none" THEN NoneV
    ELSE IF value.k = "date" THEN value
    ELSE ToDatetimeCoerce(value)

\* lambda d: d.isoformat() if d else None
IsoOrNone(dt) == IF dt.k = "date" THEN Str(IsoFormat(dt)) ELSE NoneV

\* q <= rop, q < 0 on floats; a comparison with NaN is False
NumLeq(a, b) == a.k = "float" /\ b.k = "float" /\ FLeq(a, b)
NumNeg(a) == a.k = "float" /\ a.m < 0

\* _row_issues with the EXPIRING_SOON test not chained to the EXPIRED test
_row_issues_no_elif(t, r, days_expiring) ==
    LET q == RowGet(t, r, "qty_on_hand")
        rop == RowGet(t, r, "reorder_point")
        exp_dt == RowGet(t, r, INTERNAL_EXP_DATE_COL)
        tags ==
            (IF q.k # "none" /\ rop.k # "none" /\ NumLeq(q, rop) THEN <<"LOW_STOCK">> ELSE <<>>)
            \o (IF exp_dt.k = "date" /\ DateOrd(exp_dt) < DateOrd(Today)
                THEN <<"EXPIRED">> ELSE <<>>)
            \o (IF exp_dt.k = "date" /\ DateOrd(exp_dt) <= DateOrd(Today) + days_expiring
                THEN <<"EXPIRING_SOON">> ELSE <<>>)
            \o (IF q.k # "none" /\ NumNeg(q) THEN <<"NEGATIVE_QTY">> ELSE <<>>)
    IN  Str(Join(tags))

_row_issues(t, r, days_expiring) ==
    LET q == RowGet(t, r, "qty_on_hand")
        rop == RowGet(t, r, "reorder_point")
        exp_dt == RowGet(t, r, INTERNAL_EXP_DATE_COL)
        tags ==
            (IF q.k # "none" /\ rop.k # "none" /\ NumLeq(q, rop) THEN <<"LOW_STOCK">> ELSE <<>>)
            \o (IF exp_dt.k = "date"
                THEN IF DateOrd(exp_dt) < DateOrd(Today) THEN <<"EXPIRED">>
                     ELSE IF DateOrd(exp_dt) <= DateOrd(Today) + days_expiring
                          THEN <<"EXPIRING_SOON">>
                          ELSE <<>>
                ELSE <<>>)
            \o (IF q.k # "none" /\ NumNeg(q) THEN <<"NEGATIVE_QTY">> ELSE <<>>)
    IN  Str(Join(tags))

\* df[c] >= 0 without the fillna: a missing quantity is removed as well
KeepsQty_without_fillna(t, c, r) ==
    LET q == t.rows[r][ColIdx(t, c)] IN q.k = "float" /\ q.m >= 0

\* ~(df[c].fillna(0) < 0): the rows the negative-quantity filter keeps
KeepsQty(t, c, r) == ~NumNeg(t.rows[r][ColIdx(t, c)])

\* step 1: df = _map_headers(df_in.copy())
StockMapHeaders ==
    /\ pc = "s_map"
    /\ df' = [cols |-> _map_headers(df_in.cols), rows |-> df_in.rows]
    /\ pc' = "s_normalize"
    /\ UNCHANGED <<arg, ret, df_in, cfg, aux, result>>

stock_normalize_numbers(t) ==
    LET t1 == IF HasCol(t, "qty_on_hand")
              THEN SetCol(t, "qty_on_hand", MapColumn(t, "qty_on_hand", parse_number))
              ELSE t
    IN  IF HasCol(t1, "reorder_point")
        THEN SetCol(t1, "reorder_point", MapColumn(t1, "reorder_point", parse_number))
        ELSE t1

stock_normalize_expiry(t) ==
    IF HasCol(t, "expiry_date")
    THEN LET t1 == SetCol(t, INTERNAL_EXP_DATE_COL, MapColumn(t, "expiry_date", _safe_to_date))
         IN  SetCol(t1, "expiry_date", MapColumn(t1, INTERNAL_EXP_DATE_COL, IsoOrNone))
    ELSE SetCol(t, INTERNAL_EXP_DATE_COL, NoneColumn(t))

\* steps 2 and 3
StockNormalize ==
    /\ pc = "s_normalize"
    /\ df' = stock_normalize_expiry(stock_normalize_numbers(df))
    /\ pc' = "s_tag"
    /\ UNCHANGED <<arg, ret, df_in, cfg, aux, result>>

\* step 4
StockTag ==
    /\ pc = "s_tag"
    /\ df' = SetCol(df, INTERNAL_ISSUES_COL,
                    [r \in 1..NRows(df) |-> _row_issues(df, r, cfg.days_expiring)])
    /\ pc' = "s_filter"
    /\ UNCHANGED <<arg, ret, df_in, cfg, aux, result>>

stock_filter(t, drop_negative_qty) ==
    IF drop_negative_qty /\ HasCol(t, "qty_on_hand")
    THEN FilterRows(t, LAMBDA r : KeepsQty(t, "qty_on_hand", r))
    ELSE t

\* step 5
StockRowFilter ==
    /\ pc = "s_filter"
    /\ df' = stock_filter(df, cfg.drop_negative_qty)
    /\ aux' = [aux EXCEPT !.removed_neg = NRows(df) - NRows(df')]
    /\ pc' = "s_summary"
    /\ UNCHANGED <<arg, ret, df_in, cfg, result>>

\* step 8: the column list clean_stock selects
stock_ordered(cols) ==
    SelectSeq(CANONICAL_ORDER_STOCK, LAMBDA c : c \in SeqRange(cols))
    \o SelectSeq(cols, LAMBDA c : c \notin SeqRange(CANONICAL_ORDER_STOCK)
                                  /\ c \notin {INTERNAL_ISSUES_COL, INTERNAL_EXP_DATE_COL})
    \o <<"__issues">>

\* steps 6 to 11
StockSummary ==
    /\ pc = "s_summary"
    /\ LET issues_summary == ValueCounts(Column(df, INTERNAL_ISSUES_COL))
           t7 == SetCol(df, "__issues", Column(df, INTERNAL_ISSUES_COL))
           t8 == SelectColumns(t7, stock_ordered(t7.cols))
           get(tag) == IF tag \in DOMAIN issues_summary THEN issues_summary[tag] ELSE 0
       IN  /\ df' = t8
           /\ result' = [kind |-> "stock",
                         profile |-> [rows_in |-> NRows(df_in),
                                      rows_out |-> NRows(t8),
                                      low_stock |-> get("LOW_STOCK"),
                                      expiring_soon |-> get("EXPIRING_SOON"),
                                      expired |-> get("EXPIRED"),
                                      negative_qty_dropped |-> aux.removed_neg],
                         issues_summary |-> issues_summary,
                         clean_df |-> t8]
    /\ pc' = "done"
    /\ UNCHANGED <<arg, ret, df_in, cfg, aux>>

NextStock ==
    \/ StockMapHeaders
    \/ StockNormalize
    \/ StockTag
    \/ StockRowFilter
    \/ StockSummary

----------------------------------------------------------------------------
(* Input tables of clean_stock *)

MaxStockRows == 3

\* all tables of 1..n rows drawn from pool
Tables(cols, pool, n) ==
    {[cols |-> cols, rows |-> rows] : rows \in UNION {[1..k -> pool] : k \in 1..n}}

StockSheetFull ==
    [cols |-> <<"SKU", "Product Name", "Qty", "Min Qty", "Expiry", "Notes">>,
     pool |-> { <<Str("A1"), Str("Milk"), Str("0"), Str("5"), Str("2025-09-14"), Str("x")>>,
                <<Str("A2"), Str("Tea"), IntV(10), IntV(5), Str("2025-09-15"), NaN>>,
                <<Str("A3"), Str("Nut"), Str("-2"), NaN, Str("2025/10/15"), NaN>>,
                <<Str("A4"), Str("Oil"), NaN, Str("3"), Str("10/16/2025"), Str("y")>>,
                <<Str("A5"), Str("Gum"), Str("abc"), Str("1"), Str("not a date"), NaN>>,
                <<Str("A6"), Str("Jam"), Str("-1"), Str("-1"), NaN, NaN>> }]

StockSheetPartial ==
    [cols |-> <<"sku", "on hand">>,
     pool |-> { <<Str("B1"), IntV(3)>>, <<Str("B2"), IntV(-4)>>, <<Str("B3"), NaN>> }]

StockSheetOwnIssues ==
    [cols |-> <<"Item", "Best Before", "__issues", "Reorder Point">>,
     pool |-> { <<Str("Soap"), Str("2025-09-14"), Str("old"), IntV(1)>>,
                <<Str("Salt"), NaN, NaN, NaN>> }]

StockSheets == {StockSheetFull, StockSheetPartial, StockSheetOwnIssues}

StockInputs == UNION {Tables(sh.cols, sh.pool, MaxStockRows) : sh \in StockSheets}

StockConfigs ==
    [kind : {"stock"}, days_expiring : {0, 30}, drop_negative_qty : BOOLEAN]

NoLocals == [header_map |-> <<>>, removed_neg |-> 0, dup_removed |-> 0]

InitStock ==
    /\ pc = "s_map"
    /\ arg = NoneV
    /\ ret = NoCall
    /\ df_in \in StockInputs
    /\ cfg \in StockConfigs
    /\ df = NoTable
    /\ aux = NoLocals
    /\ result = NoResult

----------------------------------------------------------------------------
(* backend/app/cleaning/pipeline.py: clean_invoices *)

DATE_COLUMNS == {"issue_date", "due_date"}

NUMBER_COLUMNS ==
    {"quantity", "unit_price", "line_total", "tax_rate",
     "tax_amount", "total_before_tax", "total_amount"}

\* header_map of lines 37-41: original label -> mapped name
header_map_of(cols) ==
    [c \in SeqRange(cols) |->
        DictGet(HEADER_SYNONYMS, norm_header(c), Replace(norm_header(c), " ", "_"))]

\* lines 44-52, one column
normalize_column(t, c) ==
    IF Lower(c) \in DATE_COLUMNS THEN SetCol(t, Lower(c), MapColumn(t, Lower(c), parse_date))
    ELSE IF Lower(c) \in NUMBER_COLUMNS THEN SetCol(t, Lower(c), MapColumn(t, Lower(c), parse_number))
    ELSE IF Lower(c) = "currency" THEN SetCol(t, Lower(c), MapColumn(t, Lower(c), currency_code))
    ELSE t

\* lines 44-52: for col in list(df.columns)
RECURSIVE normalize_from(_, _, _)
normalize_from(t, cols, i) ==
    IF i > Len(cols) THEN t
    ELSE normalize_from(normalize_column(t, cols[i]), cols, i + 1)

normalize_core_fields(t) == normalize_from(t, t.cols, 1)

compute_line_total(t, r) ==
    LET q == parse_number(RowGet(t, r, "quantity"))
        p == parse_number(RowGet(t, r, "unit_price"))
    IN  IF q.k # "none" /\ p.k # "none"
        THEN Round2(FMul(q, p))
        ELSE parse_number(RowGet(t, r, "line_total"))

\* lines 55-57
derive_line_total(t) ==
    LET t1 == IF HasCol(t, "line_total") THEN t ELSE SetCol(t, "line_total", NoneColumn(t))
    IN  SetCol(t1, "line_total", InferColumn([r \in 1..NRows(t1) |-> compute_line_total(t1, r)]))

\* groupby(dropna=False) and merge: two keys are one group when they are equal
\* or both missing
SameKey(a, b) == (IsNull(a) /\ IsNull(b)) \/ a = b

\* grp["line_total"].sum().round(2) for the group of row r: missing values are
\* skipped, an all-missing group sums to 0
RECURSIVE sum_group(_, _, _, _)
sum_group(id, lt, r, i) ==
    IF i = 0 THEN Zero
    ELSE IF SameKey(id[i], id[r]) /\ lt[i].k = "float" THEN FAdd(sum_group(id, lt, r, i - 1), lt[i])
    ELSE sum_group(id, lt, r, i - 1)

sum_lines(id, lt, r) == Round2(sum_group(id, lt, r, Len(id)))

\* s.fillna(other): a missing cell takes the cell of other
FillNa(vals, other) ==
    InferColumn([r \in 1..Len(vals) |-> IF IsNull(vals[r]) THEN other[r] ELSE vals[r]])

\* a * b, a + b on columns: missing when an operand is missing
NumMul(a, b) == IF a.k = "float" /\ b.k = "float" THEN FMul(a, b) ELSE NaN
NumAdd(a, b) == IF a.k = "float" /\ b.k = "float" THEN FAdd(a, b) ELSE NaN
NumRound2(a) == IF a.k = "float" THEN Round2(a) ELSE NaN
OrZero(a) == IF IsNull(a) THEN Zero ELSE a

EnsureCol(t, c) == IF HasCol(t, c) THEN t ELSE SetCol(t, c, NoneColumn(t))

\* lines 78-80: total_amount filled where it is missing
fill_total_amount(t, tbt, tax) ==
    SetCol(t, "total_amount",
           FillNa(Column(t, "total_amount"),
                  [r \in 1..NRows(t) |-> NumRound2(NumAdd(tbt[r], OrZero(tax[r])))]))

with_tax_amount(t, tbt, tax) ==
    fill_total_amount(EnsureCol(SetCol(t, "tax_amount", tax), "total_amount"), tbt, tax)

\* lines 71-75: tax_amount filled where it is missing, when there is a tax_rate
fill_tax_amount(t, tbt, rate) ==
    with_tax_amount(t, tbt,
        IF HasCol(t, "tax_rate")
        THEN FillNa(Column(t, "tax_amount"),
                    [r \in 1..NRows(t) |-> NumRound2(NumMul(tbt[r], rate[r]))])
        ELSE Column(t, "tax_amount"))

with_total_before_tax(t, tbt) ==
    fill_tax_amount(EnsureCol(SetCol(t, "total_before_tax", tbt), "tax_amount"), tbt,
                    IF HasCol(t, "tax_rate") THEN Column(t, "tax_rate") ELSE <<>>)

\* lines 66-68: total_before_tax filled where it is missing
fill_total_before_tax(t, calc) ==
    with_total_before_tax(t, FillNa(Column(t, "total_before_tax"), calc))

\* lines 60-63: the per-invoice sum of line_total, merged back on invoice_id
merged_total(id, lt) == [r \in 1..Len(id) |-> sum_lines(id, lt, r)]

\* lines 59-82: the per-invoice sum and the three fill-if-missing totals
derive_invoice_totals(t) ==
    fill_total_before_tax(EnsureCol(t, "total_before_tax"),
                          merged_total(Column(t, "invoice_id"), Column(t, "line_total")))

\* the line_total column holds no number at all: it is an object column of
\* None, and whether its grouped sum can be rounded depends on the pandas
\* version
NoLineTotal(t) == \A r \in 1..NRows(t) : Column(t, "line_total")[r].k # "float"

\* r[c] < 0 on a cell of the row
CellNeg(c) == c.k = "float" /\ c.m < 0

\* Python truth value of a cell
Truthy(c) ==
    CASE c.k = "none" -> FALSE
      [] c.k = "str" -> c.s # ""
      [] c.k \in {"int", "float"} -> c.m # 0
      [] OTHER -> TRUE

\* a < b on two cells holding str
CellStrLess(a, b) == a.k = "str" /\ b.k = "str" /\ StrLess(a.s, b.s)

\* not (0 <= x <= 0.5): True for NaN, whose comparisons are all False
OutOfTaxRange(c) == ~(c.k = "float" /\ FLeq(Zero, c) /\ FLeq(c, Flt(5, -1)))

\* lines 85-95
row_issues(t, r, flag_due_before_issue) ==
    LET qty == RowGet(t, r, "quantity")
        price == RowGet(t, r, "unit_price")
        issue == RowGet(t, r, "issue_date")
        due == RowGet(t, r, "due_date")
        rate == RowGet(t, r, "tax_rate")
        tags ==
            (IF qty.k # "none" /\ CellNeg(qty) THEN <<"NEGATIVE_QTY">> ELSE <<>>)
            \o (IF price.k # "none" /\ CellNeg(price) THEN <<"NEGATIVE_PRICE">> ELSE <<>>)
            \o (IF flag_due_before_issue /\ Truthy(issue) /\ Truthy(due) /\ CellStrLess(due, issue)
                THEN <<"DUE_BEFORE_ISSUE">> ELSE <<>>)
            \o (IF rate.k # "none" /\ OutOfTaxRange(rate) THEN <<"TAX_RATE_OUT_OF_RANGE">> ELSE <<>>)
    IN  Str(Join(tags))

\* the filter applied whatever the drop_negative_qty setting
invoice_filter_always(t, drop_negative_qty) ==
    IF HasCol(t, "quantity")
    THEN FilterRows(t, LAMBDA r : KeepsQty(t, "quantity", r))
    ELSE t

\* lines 101-104
invoice_filter(t, drop_negative_qty) ==
    IF drop_negative_qty /\ HasCol(t, "quantity")
    THEN FilterRows(t, LAMBDA r : KeepsQty(t, "quantity", r))
    ELSE t

\* DataFrame.duplicated(subset, keep="first"): row r repeats an earlier row
\* on every column of subset; missing values equal each other
IsDuplicate(t, subset, r) ==
    \E q \in 1..(r - 1) :
        \A c \in subset : SameKey(t.rows[q][ColIdx(t, c)], t.rows[r][ColIdx(t, c)])

EXACT_SUBSET == {"invoice_id", "item_description", "line_total"}

\* lines 111-113: df.drop_duplicates(subset=[...], keep="first")
exact_pass(t) == FilterRows(t, LAMBDA r : ~IsDuplicate(t, EXACT_SUBSET, r))

\* sort_values places a missing key last; otherwise str order
KeyLess(a, b) ==
    IF IsNull(a) THEN FALSE
    ELSE IF IsNull(b) THEN TRUE
    ELSE StrLess(PyStr(a), PyStr(b))

\* row x sorts strictly before row y by (customer_name, issue_date)
SortsBefore(t, x, y) ==
    LET nx == RowGet(t, x, "customer_name")
        ny == RowGet(t, y, "customer_name")
        dx == RowGet(t, x, "issue_date")
        dy == RowGet(t, y, "issue_date")
    IN  \/ KeyLess(nx, ny)
        \/ (~KeyLess(ny, nx) /\ KeyLess(dx, dy))

\* stable insertion of row index x into the sorted index sequence s
RECURSIVE InsertSorted(_, _, _)
InsertSorted(t, s, x) ==
    IF s = <<>> THEN <<x>>
    ELSE IF SortsBefore(t, x, s[1]) THEN <<x>> \o s
    ELSE <<s[1]>> \o InsertSorted(t, Tail(s), x)

RECURSIVE SortedIdx(_, _)
SortedIdx(t, n) == IF n = 0 THEN <<>> ELSE InsertSorted(t, SortedIdx(t, n - 1), n)

\* the sort with ascending=False
sort_values_descending(t) ==
    LET idx == SortedIdx(t, NRows(t))
    IN  [t EXCEPT !.rows = [i \in 1..NRows(t) |-> t.rows[idx[NRows(t) + 1 - i]]]]

\* line 117: df.sort_values(by=["customer_name", "issue_date"]).reset_index(drop=True)
sort_values(t) ==
    LET idx == SortedIdx(t, NRows(t))
    IN  [t EXCEPT !.rows = [i \in 1..NRows(t) |-> t.rows[idx[i]]]]

\* one row of the table of longest common subsequence lengths
RECURSIVE LcsRow(_, _, _, _)
LcsRow(prev, c, b, cur) ==
    LET j == Len(cur)
    IN  IF j > Len(b) THEN cur
        ELSE LcsRow(prev, c, b,
                    Append(cur, IF Char(b, j) = c THEN prev[j] + 1
                                ELSE IF prev[j + 1] > cur[j] THEN prev[j + 1] ELSE cur[j]))

RECURSIVE LcsRows(_, _, _, _)
LcsRows(a, b, i, prev) ==
    IF i > Len(a) THEN prev[Len(b) + 1]
    ELSE LcsRows(a, b, i + 1, LcsRow(prev, Char(a, i), b, <<0>>))

\* length of the longest common subsequence of a and b
Lcs(a, b) == LcsRows(a, b, 1, [j \in 1..(Len(b) + 1) |-> 0])

\* rapidfuzz fuzz.ratio(a, b) >= threshold, the ratio being
\* 100 * 2 * Lcs(a, b) / (len(a) + len(b)), and 100 for two empty strings
RatioAtLeast(a, b, threshold) ==
    IF Len(a) + Len(b) = 0 THEN 100 >= threshold
    ELSE 200 * Lcs(a, b) >= threshold * (Len(a) + Len(b))

\* (x or 0): None counts as 0, NaN stays NaN
OrZeroPy(c) == IF c.k = "none" THEN Zero ELSE c

\* abs(b - a) <= 0.01; False when a side is NaN
AmountClose(a, b) ==
    /\ OrZeroPy(a).k = "float"
    /\ OrZeroPy(b).k = "float"
    /\ FLeq(FAbs(FSub(OrZeroPy(b), OrZeroPy(a))), Flt(1, -2))

\* lines 120-122 on rows i-1 and i of the sorted table
FuzzyMatch(t, i, threshold) ==
    /\ AmountClose(RowGet(t, i - 1, "total_amount"), RowGet(t, i, "total_amount"))
    /\ RatioAtLeast(PyStr(RowGet(t, i - 1, "customer_name")),
                    PyStr(RowGet(t, i, "customer_name")), threshold)

\* the scan of to_drop_against_kept from row i on, last the last row kept
RECURSIVE fuzzy_scan_kept(_, _, _, _)
fuzzy_scan_kept(t, threshold, i, last) ==
    IF i > NRows(t) THEN {}
    ELSE IF /\ AmountClose(RowGet(t, last, "total_amount"), RowGet(t, i, "total_amount"))
            /\ RatioAtLeast(PyStr(RowGet(t, last, "customer_name")),
                            PyStr(RowGet(t, i, "customer_name")), threshold)
         THEN {i} \cup fuzzy_scan_kept(t, threshold, i + 1, last)
         ELSE fuzzy_scan_kept(t, threshold, i + 1, i)

\* the scan comparing each row with the last row kept instead of the row before it
to_drop_against_kept(t, threshold) == fuzzy_scan_kept(t, threshold, 2, 1)

\* lines 118-123: the positions marked for removal
to_drop(t, threshold) == {i \in 2..NRows(t) : FuzzyMatch(t, i, threshold)}

FUZZY_COLUMNS == {"customer_name", "total_amount", "issue_date"}

\* lines 141-143
invoice_ordered(cols) ==
    SelectSeq(CANONICAL_ORDER, LAMBDA c : c \in SeqRange(cols))
    \o SelectSeq(cols, LAMBDA c : c \notin CANONICAL /\ c # "__issues")
    \o <<"__issues">>

\* lines 134-138: first non-missing currency, None without one
currency_detected(t) ==
    IF HasCol(t, "currency") /\ \E r \in 1..NRows(t) : ~IsNull(Column(t, "currency")[r])
    THEN LET r == CHOOSE r \in 1..NRows(t) :
                      /\ ~IsNull(Column(t, "currency")[r])
                      /\ \A q \in 1..(r - 1) : IsNull(Column(t, "currency")[q])
         IN  Column(t, "currency")[r]
    ELSE NoneV

\* line 133 counting every row instead of the rows with an issue
errors_fixed_all_rows(t) == NRows(t)

\* line 133: int((df["__issues"] != "").sum())
errors_fixed(t) == Cardinality({r \in 1..NRows(t) : Column(t, "__issues")[r] # Str("")})

\* an exception leaves clean_invoices: no result object is returned
Raise(error) ==
    /\ pc' = "raised"
    /\ result' = [kind |-> "raised", error |-> error]
    /\ UNCHANGED <<arg, ret, df_in, cfg, df, aux>>

\* lines 33-41
InvMapHeaders ==
    /\ pc = "i_map"
    /\ df' = [cols |-> map_headers(df_in.cols), rows |-> df_in.rows]
    /\ aux' = [aux EXCEPT !.header_map = header_map_of(df_in.cols)]
    /\ pc' = "i_normalize"
    /\ UNCHANGED <<arg, ret, df_in, cfg, result>>

\* lines 44-52
InvNormalize ==
    /\ pc = "i_normalize"
    /\ df' = normalize_core_fields(df)
    /\ pc' = "i_derive"
    /\ UNCHANGED <<arg, ret, df_in, cfg, aux, result>>

\* lines 55-82
InvDerive ==
    /\ pc = "i_derive"
    /\ \E t1 \in {derive_line_total(df)} :
          \/ /\ df' = IF HasCol(t1, "invoice_id") THEN derive_invoice_totals(t1) ELSE t1
             /\ pc' = "i_tag"
             /\ UNCHANGED <<arg, ret, df_in, cfg, aux, result>>
          \/ /\ HasCol(t1, "invoice_id")
             /\ NoLineTotal(t1)
             /\ Raise("TypeError")

\* lines 85-97
InvTag ==
    /\ pc = "i_tag"
    /\ df' = SetCol(df, "__issues",
                    [r \in 1..NRows(df) |-> row_issues(df, r, cfg.flag_due_before_issue)])
    /\ pc' = "i_filter"
    /\ UNCHANGED <<arg, ret, df_in, cfg, aux, result>>

\* lines 100-104
InvRowFilter ==
    /\ pc = "i_filter"
    /\ df' = invoice_filter(df, cfg.drop_negative_qty)
    /\ aux' = [aux EXCEPT !.removed_neg = NRows(df) - NRows(df')]
    /\ pc' = "i_exact"
    /\ UNCHANGED <<arg, ret, df_in, cfg, result>>

\* lines 107-114
InvExactPass ==
    /\ pc = "i_exact"
    /\ IF cfg.drop_duplicates /\ HasCol(df, "invoice_id")
       THEN IF HasCol(df, "item_description")
            THEN /\ df' = exact_pass(df)
                 /\ aux' = [aux EXCEPT !.dup_removed = @ + NRows(df) - NRows(df')]
                 /\ pc' = "i_fuzzy"
                 /\ UNCHANGED <<arg, ret, df_in, cfg, result>>
            ELSE Raise("KeyError")
       ELSE /\ pc' = "i_fuzzy"
            /\ UNCHANGED <<arg, ret, df_in, cfg, df, aux, result>>

\* lines 116-126
InvFuzzyPass ==
    /\ pc = "i_fuzzy"
    /\ IF cfg.drop_duplicates /\ \A c \in FUZZY_COLUMNS : HasCol(df, c)
       THEN \E s \in {sort_values(df)} :
               \E marks \in {to_drop(s, cfg.fuzzy_threshold)} :
                  /\ df' = FilterRows(s, LAMBDA i : i \notin marks)
                  /\ aux' = [aux EXCEPT !.dup_removed = @ + Cardinality(marks)]
       ELSE UNCHANGED <<df, aux>>
    /\ pc' = "i_summary"
    /\ UNCHANGED <<arg, ret, df_in, cfg, result>>

\* lines 129-153 and the return
InvSummary ==
    /\ pc = "i_summary"
    /\ LET t == SelectColumns(df, invoice_ordered(df.cols))
       IN  /\ df' = t
           /\ result' = [kind |-> "invoices",
                         profile |-> [rows_in |-> NRows(df_in),
                                      rows_out |-> NRows(df),
                                      duplicates_removed |-> aux.dup_removed,
                                      errors_fixed |-> errors_fixed(df),
                                      currency_detected |-> currency_detected(df)],
                         issues_summary |-> ValueCounts(Column(t, "__issues")),
                         header_map |-> aux.header_map,
                         clean_df |-> t]
    /\ pc' = "done"
    /\ UNCHANGED <<arg, ret, df_in, cfg, aux>>

NextInvoices ==
    \/ InvMapHeaders
    \/ InvNormalize
    \/ InvDerive
    \/ InvTag
    \/ InvRowFilter
    \/ InvExactPass
    \/ InvFuzzyPass
    \/ InvSummary

----------------------------------------------------------------------------
(* Input tables and configurations of clean_invoices *)

MaxRows == 3

\* the table of tests/data/test_pipeline.py, with a second line item of INV-1
InvoiceSheetTest ==
    [cols |-> <<"Invoice No", "Date", "Due", "Client", "Item", "Qty", "Unit Price", "TVA", "Currency">>,
     pool |-> { <<Str("INV-1"), Str("2025/09/01"), Str("2025/09/30"), Str("Acme"), Str("Widget"),
                  IntV(2), IntV(50), Flt(2, -1), Str("USD")>>,
                <<Str("INV-2"), Str("2025-09-02"), Str("2025/09/10"), Str("Delta"), Str("Gadget"),
                  IntV(-1), IntV(100), Flt(2, -1), Str("usd")>>,
                <<Str("INV-3"), Str("2025-09-03"), Str("2025/08/30"), Str("Gamma"), Str("Bracket"),
                  IntV(3), IntV(25), Flt(15, -2), NaN>>,
                <<Str("INV-1"), Str("2025/09/01"), Str("2025/09/30"), Str("Acme"), Str("Bolt"),
                  IntV(1), IntV(10), Flt(2, -1), Str("$")>> }]

\* canonical headers, a tax rate, no source totals
InvoiceSheetRated ==
    [cols |-> <<"invoice_id", "item_description", "quantity", "unit_price", "line_total", "tax_rate">>,
     pool |-> { <<Str("INV-1"), Str("Widget"), Str("2"), Str("50"), NaN, Str("0.2")>>,
                <<Str("INV-1"), Str("Bolt"), Str("1,5"), Str("0.25"), Str("9.99"), Str("0.2")>>,
                <<Str("INV-1"), Str("Token"), Str("100000"), Str("0.00005"), Str("7"), Str("0.2")>>,
                <<Str("INV-1"), Str("Cap"), Str("-3"), Str("0.125"), NaN, Str("0.6")>>,
                <<Str("INV-2"), Str("Gear"), NaN, Str("3"), Str("4.5"), NaN>> }]

\* source totals present on some rows and missing or unparseable on others
InvoiceSheetTotals ==
    [cols |-> <<"Invoice", "Item", "Qty", "Price", "Line Total", "Tax Rate", "Tax", "Subtotal", "Total", "PO Ref">>,
     pool |-> { <<Str("INV-7"), Str("Pen"), Str("2"), Str("10"), Str("25"), Str("0.1"),
                  Str("1.5"), Str("30"), Str("40"), Str("p1")>>,
                <<Str("INV-7"), Str("Ink"), Str("1"), Str("5"), NaN, Str("0.1"),
                  NaN, NaN, NaN, NaN>>,
                <<NaN, Str("Pad"), NaN, NaN, Str("12.375"), NaN,
                  Str("abc"), Str("n/a"), Str("$1,000.50"), Str("p3")>> }]

\* no invoice id: only the fuzzy pass can remove a row; the amounts are exact
\* binary fractions, so that their differences are the same in float64 and
\* in decimal arithmetic
InvoiceSheetFuzzy ==
    [cols |-> <<"Customer", "Date", "Total">>,
     pool |-> { <<Str("Acme Inc"), Str("2025-09-01"), Str("100.00")>>,
                <<Str("Acme Inc"), Str("2025-09-02"), Str("100.0078125")>>,
                <<Str("Acme Inc."), Str("2025-09-03"), Str("100.015625")>>,
                <<Str("Delta"), Str("2025-09-01"), Str("100.00")>>,
                <<NaN, NaN, Str("abc")>> }]

\* one row per invoice: an invoice id, no line items
InvoiceSheetSummary ==
    [cols |-> <<"Invoice No", "Total">>,
     pool |-> { <<Str("INV-1"), Str("120.00")>>,
                <<Str("INV-2"), NaN>> }]

\* line items with an invoice id and no item description
InvoiceSheetNoItem ==
    [cols |-> <<"Invoice No", "Qty", "Unit Price">>,
     pool |-> { <<Str("INV-1"), IntV(2), IntV(50)>>,
                <<Str("INV-2"), IntV(1), Str("10")>> }]

\* two different labels of one canonical name
InvoiceSheetTwoNames ==
    [cols |-> <<"Customer", "Client", "Qty">>,
     pool |-> { <<Str("Acme"), Str("Acme Ltd"), IntV(2)>>,
                <<Str("Delta"), NaN, Str("-1")>> }]

InvoiceSheets ==
    {InvoiceSheetTest, InvoiceSheetRated, InvoiceSheetTotals, InvoiceSheetFuzzy,
     InvoiceSheetSummary, InvoiceSheetNoItem, InvoiceSheetTwoNames}

InvoiceInputs == UNION {Tables(sh.cols, sh.pool, MaxRows) : sh \in InvoiceSheets}

DEFAULT_FUZZY_THRESHOLD == 90

InvoiceConfig(fuzzy, dupes, neg, flag) ==
    [kind |-> "invoices", fuzzy_threshold |-> fuzzy, drop_duplicates |-> dupes,
     drop_negative_qty |-> neg, flag_due_before_issue |-> flag]

\* the defaults; both removals with the date flag off; no duplicate removal;
\* no removal at all; a stricter threshold
InvoiceConfigs ==
    { InvoiceConfig(DEFAULT_FUZZY_THRESHOLD, TRUE, FALSE, TRUE),
      InvoiceConfig(DEFAULT_FUZZY_THRESHOLD, TRUE, TRUE, FALSE),
      InvoiceConfig(DEFAULT_FUZZY_THRESHOLD, FALSE, TRUE, TRUE),
      InvoiceConfig(DEFAULT_FUZZY_THRESHOLD, FALSE, FALSE, TRUE),
      InvoiceConfig(DEFAULT_FUZZY_THRESHOLD + 5, TRUE, FALSE, TRUE) }

InitInvoices ==
    /\ pc = "i_map"
    /\ arg = NoneV
    /\ ret = NoCall
    /\ df_in \in InvoiceInputs
    /\ cfg \in InvoiceConfigs
    /\ df = NoTable
    /\ aux = NoLocals
    /\ result = NoResult

----------------------------------------------------------------------------
(* One call of clean_invoices or of clean_stock on one table *)

Init == InitInvoices \/ InitStock

Next == NextInvoices \/ NextStock

Spec == Init /\ [][Next]_vars

----------------------------------------------------------------------------
(* Claims about the two pipelines, checked under Spec *)

Finished(kind) == pc = "done" /\ result.kind = kind

\* the positions of s that satisfy keep, in increasing order
KeptPositions(n, keep(_)) == SelectSeq([i \in 1..n |-> i], keep)

\* C1: in both pipelines rows_out <= rows_in, and rows_in - rows_out is the
\* number of duplicates removed plus the number of rows removed by the
\* negative-quantity filter, each of the two being 0 when its phase is
\* disabled or absent; no other phase changes the number of rows
C1_RowCountAccounting ==
    /\ pc \in {"i_normalize", "i_derive", "i_tag", "i_filter", "s_normalize", "s_tag", "s_filter"}
          => NRows(df) = NRows(df_in)
    /\ pc \in {"i_exact", "i_fuzzy", "i_summary"}
          => /\ NRows(df) = NRows(df_in) - aux.removed_neg - aux.dup_removed
             /\ ~(cfg.drop_negative_qty /\ HasCol(df, "quantity")) => aux.removed_neg = 0
             /\ ~cfg.drop_duplicates => aux.dup_removed = 0
    /\ pc = "s_summary"
          => /\ NRows(df) = NRows(df_in) - aux.removed_neg
             /\ ~(cfg.drop_negative_qty /\ HasCol(df, "qty_on_hand")) => aux.removed_neg = 0
    /\ Finished("invoices")
          => /\ result.profile.rows_in = NRows(df_in)
             /\ result.profile.rows_out = NRows(result.clean_df)
             /\ result.profile.rows_out <= result.profile.rows_in
             /\ result.profile.rows_in - result.profile.rows_out
                    = result.profile.duplicates_removed + aux.removed_neg
             /\ ~(cfg.drop_negative_qty /\ HasCol(result.clean_df, "quantity"))
                    => aux.removed_neg = 0
             /\ ~cfg.drop_duplicates => result.profile.duplicates_removed = 0
    /\ Finished("stock")
          => /\ result.profile.rows_in = NRows(df_in)
             /\ result.profile.rows_out = NRows(result.clean_df)
             /\ result.profile.rows_out <= result.profile.rows_in
             /\ result.profile.rows_in - result.profile.rows_out
                    = result.profile.negative_qty_dropped
             /\ ~(cfg.drop_negative_qty /\ HasCol(result.clean_df, "qty_on_hand"))
                    => result.profile.negative_qty_dropped = 0

\* a call that lost one row to the negative-quantity filter and one to the
\* duplicate passes
C1_Witness ==
    /\ Finished("invoices")
    /\ result.profile.rows_in = 3
    /\ result.profile.rows_out = 1
    /\ aux.removed_neg = 1
    /\ result.profile.duplicates_removed = 1

\* (invoice_id, item_description, line_total) of row r of table t
C2_Triple(t, r) ==
    <<RowGet(t, r, "invoice_id"), RowGet(t, r, "item_description"), RowGet(t, r, "line_total")>>

\* two triples are equal when they agree field by field, two missing values
\* agreeing with each other
C2_SameTriple(x, y) ==
    \A k \in 1..3 : (IsNull(x[k]) /\ IsNull(y[k])) \/ x[k] = y[k]

C2_Repeats(t, r) == \E q \in 1..(r - 1) : C2_SameTriple(C2_Triple(t, q), C2_Triple(t, r))

\* the exact pass left the rows of df that repeat no earlier row, in their
\* order, and counted the others
C2_KeepsFirst ==
    LET kept == KeptPositions(NRows(df), LAMBDA r : ~C2_Repeats(df, r))
    IN  /\ df'.cols = df.cols
        /\ NRows(df') = Len(kept)
        /\ \A k \in 1..Len(kept) : df'.rows[k] = df.rows[kept[k]]
        /\ aux'.dup_removed = aux.dup_removed + (NRows(df) - Len(kept))

\* C2: with drop_duplicates enabled and an invoice_id column, the exact pass
\* removes exactly the rows whose (invoice_id, item_description, line_total)
\* equals that of an earlier row, keeps the others in their original order,
\* and adds 1 to duplicates_removed for each row removed
C2_ExactPass ==
    [][(pc = "i_exact" /\ cfg.drop_duplicates /\ HasCol(df, "invoice_id"))
          => C2_KeepsFirst]_vars

\* the same property on the tables that have an item_description column
C2_HoldsWithItemDescription ==
    [][(/\ pc = "i_exact"
        /\ cfg.drop_duplicates
        /\ HasCol(df, "invoice_id")
        /\ HasCol(df, "item_description"))
          => C2_KeepsFirst]_vars

\* two identical rows with an item description in, one row out,
\* duplicates_removed = 1
C2_TwoIdenticalRows ==
    /\ Finished("invoices")
    /\ cfg.drop_duplicates
    /\ HasCol(result.clean_df, "invoice_id")
    /\ NRows(df_in) = 2
    /\ df_in.rows[1] = df_in.rows[2]
    /\ result.profile.rows_out = 1
    /\ result.profile.duplicates_removed = 1

\* row x comes strictly before row y in ascending (customer_name,
\* issue_date) order, a missing key after every present one
C3_Before(t, x, y) ==
    LET n == ColIdx(t, "customer_name")
        d == ColIdx(t, "issue_date")
        less(a, b) == ~IsNull(a) /\ (IsNull(b) \/ StrLess(PyStr(a), PyStr(b)))
    IN  \/ less(x[n], y[n])
        \/ (~less(y[n], x[n]) /\ less(x[d], y[d]))

\* rows i-1 and i of the sorted frame s are within 0.01 in total_amount and
\* at least threshold similar in customer_name
C3_Near(t, s, i, threshold) ==
    /\ AmountClose(s[i - 1][ColIdx(t, "total_amount")], s[i][ColIdx(t, "total_amount")])
    /\ RatioAtLeast(PyStr(s[i - 1][ColIdx(t, "customer_name")]),
                    PyStr(s[i][ColIdx(t, "customer_name")]), threshold)

\* C3: the fuzzy pass sorts the rows by (customer_name, issue_date)
\* ascending; the row at sorted position i is removed iff it is within 0.01
\* in total_amount of, and at least fuzzy_threshold similar in customer_name
\* to, the row at position i-1 of the sorted frame as it was before any
\* removal; each removed row adds 1 to duplicates_removed
C3_FuzzyPass ==
    [][(pc = "i_fuzzy" /\ cfg.drop_duplicates /\ \A c \in FUZZY_COLUMNS : HasCol(df, c))
          => \E p \in Permutations(1..NRows(df)) :
                LET s == [i \in 1..NRows(df) |-> df.rows[p[i]]]
                    marked == {i \in 2..NRows(df) : C3_Near(df, s, i, cfg.fuzzy_threshold)}
                    kept == KeptPositions(NRows(df), LAMBDA i : i \notin marked)
                IN  /\ \A i \in 2..NRows(df) : ~C3_Before(df, s[i], s[i - 1])
                    /\ NRows(df') = Len(kept)
                    /\ \A k \in 1..Len(kept) : df'.rows[k] = s[kept[k]]
                    /\ aux'.dup_removed = aux.dup_removed + Cardinality(marked)]_vars

\* three different rows that chain: the second is near the first, the third
\* near the second, and both are removed
C3_Witness ==
    /\ pc = "i_summary"
    /\ cfg.drop_duplicates
    /\ \A c \in FUZZY_COLUMNS : HasCol(df, c)
    /\ NRows(df_in) = 3
    /\ Cardinality({df_in.rows[i] : i \in 1..3}) = 3
    /\ aux.dup_removed = 2
    /\ NRows(df) = 1

InvoiceTags == {"NEGATIVE_QTY", "NEGATIVE_PRICE", "DUE_BEFORE_ISSUE", "TAX_RATE_OUT_OF_RANGE"}
StockTags == {"LOW_STOCK", "EXPIRED", "EXPIRING_SOON", "NEGATIVE_QTY"}

\* cell is the empty string or distinct tags of vocabulary joined by "|"
C4_WellFormed(cell, vocabulary) ==
    /\ cell.k = "str"
    /\ \/ cell.s = ""
       \/ LET tags == Split(cell.s)
          IN  /\ \A i \in 1..Len(tags) : tags[i] \in vocabulary
              /\ \A i, j \in 1..Len(tags) : i # j => tags[i] # tags[j]

\* C4: every issues value of a cleaned table is empty or a "|"-joined list of
\* distinct tags of the pipeline's vocabulary, and errors_fixed of
\* clean_invoices is the number of rows with a non-empty issues value
C4_IssuesVocabulary ==
    pc = "done" =>
        /\ \A j \in 1..Len(result.clean_df.cols) :
              result.clean_df.cols[j] = "__issues" =>
                  \A r \in 1..NRows(result.clean_df) :
                      C4_WellFormed(result.clean_df.rows[r][j],
                                    IF result.kind = "stock" THEN StockTags ELSE InvoiceTags)
        /\ result.kind = "invoices" =>
              result.profile.errors_fixed =
                  Cardinality({r \in 1..NRows(result.clean_df) :
                                  RowGet(result.clean_df, r, "__issues").s # ""})

\* a cleaned invoice table of two rows, one clean and one with two tags
C4_Witness ==
    /\ Finished("invoices")
    /\ NRows(result.clean_df) = 2
    /\ result.profile.errors_fixed = 1
    /\ \E r \in 1..2 :
          RowGet(result.clean_df, r, "__issues") = Str("NEGATIVE_QTY|TAX_RATE_OUT_OF_RANGE")

TOTALS_COLUMNS == {"total_before_tax", "tax_amount", "total_amount"}

\* sum of the float cells vals[1..n]
RECURSIVE C5_Sum(_, _)
C5_Sum(vals, n) == IF n = 0 THEN Zero ELSE FAdd(C5_Sum(vals, n - 1), vals[n])

\* the source has none of the three totals, and every row of the cleaned
\* table has the same invoice id, a quantity, a unit price and a tax rate
C5_SingleInvoice(t) ==
    /\ NRows(t) = NRows(df_in)
    /\ \A c \in TOTALS_COLUMNS : c \notin SeqRange(map_headers(df_in.cols))
    /\ \A c \in {"invoice_id", "quantity", "unit_price", "tax_rate"} : HasCol(t, c)
    /\ \A r \in 1..NRows(t) :
          /\ RowGet(t, r, "invoice_id").k = "str"
          /\ RowGet(t, r, "invoice_id") = RowGet(t, 1, "invoice_id")
          /\ RowGet(t, r, "quantity").k = "float"
          /\ RowGet(t, r, "unit_price").k = "float"
          /\ RowGet(t, r, "tax_rate").k = "float"

\* every row has line_total = round(quantity * unit_price, 2) and
\* total_amount = round(S, 2) + round(S * tax_rate, 2), S the sum of the
\* line totals
C5_TotalsOf(t) ==
    /\ \A r \in 1..NRows(t) :
          RowGet(t, r, "line_total")
              = Round2(FMul(RowGet(t, r, "quantity"), RowGet(t, r, "unit_price")))
    /\ \A r \in 1..NRows(t) :
          RowGet(t, r, "total_amount")
              = FAdd(Round2(C5_Sum(Column(t, "line_total"), NRows(t))),
                     Round2(FMul(C5_Sum(Column(t, "line_total"), NRows(t)),
                                 RowGet(t, r, "tax_rate"))))

\* C5: for a table whose rows share one invoice_id, with quantity,
\* unit_price and tax_rate on every row and no source totals, every row ends
\* with line_total = round(quantity * unit_price, 2) and total_amount =
\* round(sum(line_total), 2) + round(sum(line_total) * tax_rate, 2)
C5_SingleInvoiceTotals ==
    (Finished("invoices") /\ C5_SingleInvoice(result.clean_df)) => C5_TotalsOf(result.clean_df)

\* str(x) of the float x is in exponent notation
ExponentNotation(x) == x.k = "float" /\ InStr(FloatStr(x), "e")

\* the same property on the tables where no quantity or unit price prints in
\* exponent notation
C5_HoldsInFixedNotation ==
    (/\ Finished("invoices")
     /\ C5_SingleInvoice(result.clean_df)
     /\ \A r \in 1..NRows(result.clean_df) :
           /\ ~ExponentNotation(RowGet(result.clean_df, r, "quantity"))
           /\ ~ExponentNotation(RowGet(result.clean_df, r, "unit_price")))
        => C5_TotalsOf(result.clean_df)

\* C6: the derived-field step never overwrites a non-null source value of
\* total_before_tax, tax_amount or total_amount; it replaces line_total by
\* round(quantity * unit_price, 2) whenever quantity and unit_price are both
\* non-null, and otherwise leaves line_total at its parsed source value
C6_FillOnlyIfNull ==
    [][(pc = "i_derive" /\ pc' = "i_tag")
          => /\ \A c \in TOTALS_COLUMNS : \A r \in 1..NRows(df) :
                   ~IsNull(RowGet(df, r, c)) => RowGet(df', r, c) = RowGet(df, r, c)
             /\ \A r \in 1..NRows(df) :
                   IF ~IsNull(RowGet(df, r, "quantity")) /\ ~IsNull(RowGet(df, r, "unit_price"))
                   THEN RowGet(df', r, "line_total")
                            = Round2(FMul(RowGet(df, r, "quantity"), RowGet(df, r, "unit_price")))
                   ELSE SameKey(RowGet(df', r, "line_total"), RowGet(df, r, "line_total"))]_vars

\* the first half of C6 alone: a non-null total is never overwritten
C6_TotalsNeverOverwritten ==
    [][(pc = "i_derive" /\ pc' = "i_tag")
          => \A c \in TOTALS_COLUMNS : \A r \in 1..NRows(df) :
                ~IsNull(RowGet(df, r, c)) => RowGet(df', r, c) = RowGet(df, r, c)]_vars

\* position of column c in the canonical order, 0 for an unknown column
C7_Rank(order, c) == IF c \in SeqRange(order) THEN FirstAt(order, c, 1) ELSE 0

\* cols is canonical columns in canonical order, then unknown columns, then
\* the issues column, each name once
C7_Ordered(cols, order) ==
    /\ cols[Len(cols)] = "__issues"
    /\ \A i, j \in 1..Len(cols) : i # j => cols[i] # cols[j]
    /\ \A i \in 1..Len(cols) : cols[i] \notin {INTERNAL_ISSUES_COL, INTERNAL_EXP_DATE_COL}
    /\ \A i, j \in 1..(Len(cols) - 1) :
          i < j => \/ C7_Rank(order, cols[j]) = 0
                   \/ (C7_Rank(order, cols[i]) # 0
                       /\ C7_Rank(order, cols[i]) < C7_Rank(order, cols[j]))

\* C7: the cleaned table of either pipeline has the present canonical
\* columns in canonical order, then the unknown columns, then the issues
\* column as the single last column; no name twice, no internal helper column
C7_ColumnOrder ==
    /\ Finished("invoices") =>
          C7_Ordered(result.clean_df.cols,
                     SelectSeq(CANONICAL_ORDER, LAMBDA c : c # "__issues"))
    /\ Finished("stock") =>
          C7_Ordered(result.clean_df.cols,
                     SelectSeq(CANONICAL_ORDER_STOCK, LAMBDA c : c # "__issues"))

\* the invoice half of C7 alone
C7_HoldsForInvoices ==
    Finished("invoices") =>
        C7_Ordered(result.clean_df.cols, SelectSeq(CANONICAL_ORDER, LAMBDA c : c # "__issues"))

\* the tags of an issues cell
C10_TagsOf(cell) == SeqRange(Split(cell.s)) \ {""}

C11_NeverRaises == pc # "raised"

\* the only calls that raise: the exact pass on a table without
\* item_description, and the per-invoice sum on a table whose line_total holds
\* no number
C11_RaisesOnlyWithoutItemOrLineTotal ==
    pc = "raised"
        => \/ result.error = "KeyError" /\ ~HasCol(df, "item_description")
           \/ result.error = "TypeError" /\ NoLineTotal(derive_line_total(df))

\* clean_stock returned a complete result for a table with one canonical
\* column
C11_StockPartialTable ==
    /\ Finished("stock")
    /\ df_in.cols = <<"sku", "on hand">>
    /\ result.profile.rows_out = result.profile.rows_in

\* the count issues_summary gives a tag, 0 without an entry
CountOf(summary, tag) == IF tag \in DOMAIN summary THEN summary[tag] ELSE 0

\* C12: with drop_negative_qty on, the rows the row filter removed, each of
\* them tagged NEGATIVE_QTY before its removal, still count in issues_summary
\* of the returned result
C12_RemovedRowsStillCounted ==
    (pc = "done" /\ cfg.drop_negative_qty)
        => CountOf(result.issues_summary, "NEGATIVE_QTY") >= aux.removed_neg

\* what the code does instead: issues_summary counts the surviving rows only,
\* so after the row filter it has no NEGATIVE_QTY entry at all
C12_RemovedRowsNotCounted ==
    (pc = "done" /\ cfg.drop_negative_qty /\ aux.removed_neg > 0)
        => "NEGATIVE_QTY" \notin DOMAIN result.issues_summary

\* C13: the header mapper renames in place: the mapped table has the columns
\* of the input, one for one and in the same positions, also when two labels
\* map to the same name, and header_map has one entry for every original
\* label, giving the name of its column
C13_HeaderMapOneToOne ==
    [][/\ pc = "i_map" =>
             /\ Len(df'.cols) = Len(df_in.cols)
             /\ df'.rows = df_in.rows
             /\ DOMAIN aux'.header_map = SeqRange(df_in.cols)
             /\ \A i \in 1..Len(df_in.cols) : df'.cols[i] = aux'.header_map[df_in.cols[i]]
       /\ pc = "s_map" =>
             /\ Len(df'.cols) = Len(df_in.cols)
             /\ df'.rows = df_in.rows]_vars

\* two different labels were mapped to one name and both columns are there
C13_Witness ==
    /\ pc = "i_normalize"
    /\ Len(df_in.cols) = 3
    /\ df_in.cols[1] # df_in.cols[2]
    /\ Len(df.cols) = 3
    /\ df.cols[1] = "customer_name"
    /\ df.cols[2] = "customer_name"
    /\ DOMAIN aux.header_map = {"Customer", "Client", "Qty"}

----------------------------------------------------------------------------
(* C14: the tags of an invoice row *)

\* a cell holds a number below zero
C14_Negative(c) == ~IsNull(c) /\ c.k = "float" /\ FLess(c, Zero)

\* a cell holds a number outside [0, 0.5]
C14_OutsideRange(c) ==
    ~IsNull(c) /\ c.k = "float" /\ (FLess(c, Zero) \/ FLess(Flt(5, -1), c))

\* both cells hold a date and the first is before the second
C14_DateBefore(a, b) ==
    ~IsNull(a) /\ ~IsNull(b) /\ a.k = "str" /\ b.k = "str" /\ StrLess(a.s, b.s)

C14_RowTagged(t, r, flag) ==
    LET tags == C10_TagsOf(RowGet(t, r, "__issues"))
    IN  /\ "NEGATIVE_QTY" \in tags <=> C14_Negative(RowGet(t, r, "quantity"))
        /\ "NEGATIVE_PRICE" \in tags <=> C14_Negative(RowGet(t, r, "unit_price"))
        /\ "DUE_BEFORE_ISSUE" \in tags
              <=> flag /\ C14_DateBefore(RowGet(t, r, "due_date"), RowGet(t, r, "issue_date"))
        /\ "TAX_RATE_OUT_OF_RANGE" \in tags <=> C14_OutsideRange(RowGet(t, r, "tax_rate"))

\* C14: after tagging, an invoice row has NEGATIVE_QTY iff quantity < 0,
\* NEGATIVE_PRICE iff unit_price < 0, DUE_BEFORE_ISSUE iff the flag is on, both
\* dates are non-null and due_date < issue_date, TAX_RATE_OUT_OF_RANGE iff
\* tax_rate is non-null and outside [0, 0.5]; a null field never gets its tag
C14_InvoiceTagsExact ==
    pc = "i_filter"
        => \A r \in 1..NRows(df) : C14_RowTagged(df, r, cfg.flag_due_before_issue)

\* the three tags that do not depend on tax_rate are exact on every row, and
\* TAX_RATE_OUT_OF_RANGE is exact on every row whose tax_rate is not NaN
C14_ExactButForMissingRate ==
    pc = "i_filter"
        => \A r \in 1..NRows(df) :
              LET tags == C10_TagsOf(RowGet(df, r, "__issues"))
                  rate == RowGet(df, r, "tax_rate")
              IN  /\ "NEGATIVE_QTY" \in tags <=> C14_Negative(RowGet(df, r, "quantity"))
                  /\ "NEGATIVE_PRICE" \in tags <=> C14_Negative(RowGet(df, r, "unit_price"))
                  /\ "DUE_BEFORE_ISSUE" \in tags
                        <=> cfg.flag_due_before_issue
                            /\ C14_DateBefore(RowGet(df, r, "due_date"), RowGet(df, r, "issue_date"))
                  /\ rate.k # "nan"
                        => ("TAX_RATE_OUT_OF_RANGE" \in tags <=> C14_OutsideRange(rate))
                  /\ rate.k = "nan" => "TAX_RATE_OUT_OF_RANGE" \in tags

----------------------------------------------------------------------------
(* C15: the row filter *)

\* the rows of t whose cell of column c is not a number below zero, in order
C15_NonNegativeRows(t, c) ==
    SelectSeq(t.rows, LAMBDA row : ~C14_Negative(row[ColIdx(t, c)]))

C15_FilterStep(c) ==
    /\ df'.cols = df.cols
    /\ df'.rows = IF cfg.drop_negative_qty /\ HasCol(df, c)
                  THEN C15_NonNegativeRows(df, c)
                  ELSE df.rows

\* C15: with drop_negative_qty on, the row filter removes exactly the rows
\* whose quantity (qty_on_hand for stock) is below zero and keeps the rows
\* whose quantity is null or >= 0; with it off the filter removes no row; with
\* drop_negative_qty and drop_duplicates both off rows_out = rows_in
C15_RowFilterExact ==
    [][/\ pc = "i_filter" => C15_FilterStep("quantity")
       /\ pc = "s_filter" => C15_FilterStep("qty_on_hand")
       /\ (pc' = "done" /\ ~cfg.drop_negative_qty
             /\ (cfg.kind = "invoices" => ~cfg.drop_duplicates))
            => result'.profile.rows_out = result'.profile.rows_in]_vars

\* the stock filter removed one row of three and kept a row with quantity 0
\* and a row with no quantity
C15_Witness ==
    /\ pc = "s_summary"
    /\ cfg.drop_negative_qty
    /\ NRows(df_in) = 3
    /\ NRows(df) = 2
    /\ \E r \in 1..2 : RowGet(df, r, "qty_on_hand") = Zero
    /\ \E r \in 1..2 : IsNull(RowGet(df, r, "qty_on_hand"))

\* a table with a tagged row went through clean_invoices with both removals
\* off and kept all its rows
C15_TaggedRowsKept ==
    /\ Finished("invoices")
    /\ ~cfg.drop_negative_qty
    /\ ~cfg.drop_duplicates
    /\ "NEGATIVE_QTY" \in DOMAIN result.issues_summary
    /\ result.profile.rows_out = NRows(df_in)

----------------------------------------------------------------------------
(* C16: chains of near-duplicates in the fuzzy pass *)

\* rows x and y are within 0.01 in total_amount and at least threshold
\* similar in customer_name
C16_Match(t, x, y, threshold) ==
    /\ AmountClose(x[ColIdx(t, "total_amount")], y[ColIdx(t, "total_amount")])
    /\ RatioAtLeast(PyStr(x[ColIdx(t, "customer_name")]),
                    PyStr(y[ColIdx(t, "customer_name")]), threshold)

\* positions i-1, i, i+1 of the sorted frame s hold rows A, B, C with B
\* matching A, C matching B and C not matching A
C16_Chain(t, s, i, threshold) ==
    /\ C16_Match(t, s[i - 1], s[i], threshold)
    /\ C16_Match(t, s[i], s[i + 1], threshold)
    /\ ~C16_Match(t, s[i - 1], s[i + 1], threshold)

\* the fuzzy pass runs on this step
C16_FuzzyRuns == pc = "i_fuzzy" /\ cfg.drop_duplicates /\ \A c \in FUZZY_COLUMNS : HasCol(df, c)

\* s is df sorted by (customer_name, issue_date) and df' is s restricted to
\* the positions in K
C16_SortedAndKept(p, K) ==
    LET s == [i \in 1..NRows(df) |-> df.rows[p[i]]]
        kept == KeptPositions(NRows(df), LAMBDA i : i \in K)
    IN  /\ \A i \in 2..NRows(df) : ~C3_Before(df, s[i], s[i - 1])
        /\ NRows(df') = Len(kept)
        /\ \A k \in 1..Len(kept) : df'.rows[k] = s[kept[k]]

\* C16 as stated: of three consecutive sorted rows A, B, C where B matches A,
\* C matches B and C does not match A, two survive the fuzzy pass
C16_TwoSurvive ==
    [][C16_FuzzyRuns
          => \E p \in Permutations(1..NRows(df)) : \E K \in SUBSET (1..NRows(df)) :
                /\ C16_SortedAndKept(p, K)
                /\ \A i \in 2..(NRows(df) - 1) :
                      C16_Chain(df, [j \in 1..NRows(df) |-> df.rows[p[j]]], i, cfg.fuzzy_threshold)
                          => Cardinality({i - 1, i, i + 1} \cap K) = 2]_vars

\* C16 amended: of three consecutive sorted rows A, B, C where B matches A,
\* C matches B and C does not match A, both B and C are removed, each being
\* compared with its predecessor in the frame before any removal; A is the
\* only one of the three that can survive, and it does unless it matches the
\* row before it
C16_ChainCollapsesToFirst ==
    [][C16_FuzzyRuns
          => \E p \in Permutations(1..NRows(df)) : \E K \in SUBSET (1..NRows(df)) :
                /\ C16_SortedAndKept(p, K)
                /\ \A i \in 2..(NRows(df) - 1) :
                      LET s == [j \in 1..NRows(df) |-> df.rows[p[j]]]
                      IN  C16_Chain(df, s, i, cfg.fuzzy_threshold)
                              => /\ i \notin K
                                 /\ i + 1 \notin K
                                 /\ (i - 1) \in K
                                       <=> (i = 2 \/ ~C16_Match(df, s[i - 2], s[i - 1], cfg.fuzzy_threshold))]_vars

\* the chain Acme Inc 100.00, Acme Inc 100.0078125, Acme Inc. 100.015625 went
\* through the fuzzy pass and only its first row is left
C16_Witness ==
    /\ pc = "i_summary"
    /\ cfg.drop_duplicates
    /\ df_in.cols = <<"Customer", "Date", "Total">>
    /\ {df_in.rows[i] : i \in 1..NRows(df_in)}
          = { <<Str("Acme Inc"), Str("2025-09-01"), Str("100.00")>>,
              <<Str("Acme Inc"), Str("2025-09-02"), Str("100.0078125")>>,
              <<Str("Acme Inc."), Str("2025-09-03"), Str("100.015625")>> }
    /\ NRows(df) = 1
    /\ RowGet(df, 1, "issue_date") = Str("2025-09-01")

----------------------------------------------------------------------------
(* C17: issues_summary *)

\* the rows of the cleaned table that carry tag
C17_Carrying(t, tag) ==
    {r \in 1..NRows(t) : tag \in C10_TagsOf(Column(t, "__issues")[r])}

RECURSIVE C17_SumCounts(_, _)
C17_SumCounts(summary, tags) ==
    IF tags = {} THEN 0
    ELSE LET tag == CHOOSE x \in tags : TRUE
         IN  summary[tag] + C17_SumCounts(summary, tags \ {tag})

\* the number of (row, tag) pairs of the cleaned table
C17_Pairs(t) ==
    LET n[r \in 0..NRows(t)] ==
            IF r = 0 THEN 0
            ELSE n[r - 1] + Cardinality(C10_TagsOf(Column(t, "__issues")[r]))
    IN  n[NRows(t)]

\* C17: issues_summary maps each tag to the number of rows of the cleaned
\* table that carry it and has no entry for a tag no row carries, so its
\* counts add up to the number of (row, tag) pairs; the low_stock,
\* expiring_soon and expired fields of the stock profile are the LOW_STOCK,
\* EXPIRING_SOON and EXPIRED counts, 0 for an absent tag
C17_IssuesSummaryCounts ==
    pc = "done"
        => /\ \A tag \in InvoiceTags \cup StockTags \cup DOMAIN result.issues_summary :
                 /\ CountOf(result.issues_summary, tag)
                       = Cardinality(C17_Carrying(result.clean_df, tag))
                 /\ tag \in DOMAIN result.issues_summary
                       <=> C17_Carrying(result.clean_df, tag) # {}
           /\ C17_SumCounts(result.issues_summary, DOMAIN result.issues_summary)
                 = C17_Pairs(result.clean_df)
           /\ result.kind = "stock"
                 => /\ result.profile.low_stock
                          = Cardinality(C17_Carrying(result.clean_df, "LOW_STOCK"))
                    /\ result.profile.expiring_soon
                          = Cardinality(C17_Carrying(result.clean_df, "EXPIRING_SOON"))
                    /\ result.profile.expired
                          = Cardinality(C17_Carrying(result.clean_df, "EXPIRED"))

\* two stock rows carry LOW_STOCK, one of them with a second tag, and no row
\* is expiring soon
C17_Witness ==
    /\ Finished("stock")
    /\ NRows(result.clean_df) = 2
    /\ \E r \in 1..2 : Cardinality(C10_TagsOf(Column(result.clean_df, "__issues")[r])) = 2
    /\ "LOW_STOCK" \in DOMAIN result.issues_summary
    /\ result.issues_summary["LOW_STOCK"] = 2
    /\ result.profile.low_stock = 2
    /\ "EXPIRING_SOON" \notin DOMAIN result.issues_summary
    /\ result.profile.expiring_soon = 0

----------------------------------------------------------------------------
(* backend/app/main.py: the two upload endpoints *)

\* str.endswith
EndsWith(s, suffix) ==
    /\ Len(s) >= Len(suffix)
    /\ SubSeq(s, Len(s) - Len(suffix) + 1, Len(s)) = suffix

\* name.endswith(".csv") or name.endswith(".xlsx")
AllowedName(name) == EndsWith(name, ".csv") \/ EndsWith(name, ".xlsx")

\* line 92
MAX == 50 * 1024 * 1024

\* an upload: the endpoint it is posted to, file.filename ("" for None), the
\* number of bytes file.read() returns, and what pd.read_csv / pd.read_excel
\* makes of the bytes: a table of so many rows, or an exception
UploadNames == {"inv.csv", "inv.xlsx", "inv.txt", "inv.CSV", "csv", ""}
UploadSizes == {1024, MAX, MAX + 1}
UploadTables ==
    {[ok |-> FALSE, rows |-> 0]} \cup {[ok |-> TRUE, rows |-> n] : n \in {0, 1, 2}}

Uploads ==
    [endpoint : {"/api/clean", "/api/stock/clean"},
     name : UploadNames,
     size : UploadSizes,
     table : UploadTables]

\* the locals of the handler; -1 for what is not read yet
NoRequest == [kind |-> "api", data |-> -1, rows |-> -1, invoked |-> "none"]

InitApi ==
    /\ pc = "a_name"
    /\ arg \in Uploads
    /\ ret = NoCall
    /\ df_in = NoTable
    /\ cfg = NoCfg
    /\ df = NoTable
    /\ aux = NoRequest
    /\ result = NoResult

\* raise HTTPException(status, detail), or the response of the framework to
\* an exception the handler lets through
Respond(status) ==
    /\ pc' = "responded"
    /\ result' = [kind |-> "http", status |-> status]
    /\ UNCHANGED <<arg, ret, df_in, cfg, df>>

\* lines 86-88 and 123-125
ApiCheckName ==
    /\ pc = "a_name"
    /\ IF AllowedName(arg.name)
       THEN /\ pc' = IF arg.endpoint = "/api/clean" THEN "a_read" ELSE "s_read"
            /\ UNCHANGED <<arg, ret, df_in, cfg, df, aux, result>>
       ELSE Respond(400) /\ UNCHANGED aux

\* api_clean, lines 90-94: the payload is read and its length checked
ApiCleanRead ==
    /\ pc = "a_read"
    /\ aux' = [aux EXCEPT !.data = arg.size]
    /\ IF arg.size > MAX
       THEN Respond(413)
       ELSE /\ pc' = "a_parse"
            /\ UNCHANGED <<arg, ret, df_in, cfg, df, result>>

\* api_clean, lines 96-102
ApiCleanParse ==
    /\ pc = "a_parse"
    /\ IF ~arg.table.ok
       THEN Respond(400) /\ UNCHANGED aux
       ELSE /\ aux' = [aux EXCEPT !.rows = arg.table.rows]
            /\ pc' = "a_clean"
            /\ UNCHANGED <<arg, ret, df_in, cfg, df, result>>

\* api_clean, line 110: clean_invoices(df, config) returns, or raises and the
\* framework answers 500
ApiCleanInvoke ==
    /\ pc = "a_clean"
    /\ aux' = [aux EXCEPT !.invoked = "clean_invoices"]
    /\ \/ /\ pc' = "a_save"
          /\ UNCHANGED <<arg, ret, df_in, cfg, df, result>>
       \/ Respond(500)

\* api_clean, line 111, and _save_cleaned, lines 52-72
ApiCleanSave ==
    /\ pc = "a_save"
    /\ \/ Respond(200)
       \/ Respond(500)
    /\ UNCHANGED aux

\* api_clean_stock, lines 127-132: read and parse inside the try; an
\* exception becomes a 400 in lines 142-143
ApiStockParse ==
    /\ pc = "s_read"
    /\ IF ~arg.table.ok
       THEN /\ aux' = [aux EXCEPT !.data = arg.size]
            /\ Respond(400)
       ELSE /\ aux' = [aux EXCEPT !.data = arg.size, !.rows = arg.table.rows]
            /\ pc' = "s_rows"
            /\ UNCHANGED <<arg, ret, df_in, cfg, df, result>>

\* api_clean_stock, lines 134-135 and 140-141
ApiStockCheckRows ==
    /\ pc = "s_rows"
    /\ IF aux.rows = 0
       THEN Respond(400)
       ELSE /\ pc' = "s_clean"
            /\ UNCHANGED <<arg, ret, df_in, cfg, df, result>>
    /\ UNCHANGED aux

\* api_clean_stock, line 137: clean_stock(df, ...) returns, or raises and
\* lines 142-143 answer 400
ApiStockInvoke ==
    /\ pc = "s_clean"
    /\ aux' = [aux EXCEPT !.invoked = "clean_stock"]
    /\ \/ /\ pc' = "s_save"
          /\ UNCHANGED <<arg, ret, df_in, cfg, df, result>>
       \/ Respond(400)

\* api_clean_stock, line 138, and _save_cleaned, lines 52-72; the
\* HTTPException of _save_cleaned is re-raised by lines 140-141
ApiStockSave ==
    /\ pc = "s_save"
    /\ \/ Respond(200)
       \/ Respond(500)
    /\ UNCHANGED aux

NextApi ==
    \/ ApiCheckName
    \/ ApiCleanRead
    \/ ApiCleanParse
    \/ ApiCleanInvoke
    \/ ApiCleanSave
    \/ ApiStockParse
    \/ ApiStockCheckRows
    \/ ApiStockInvoke
    \/ ApiStockSave

SpecApi == InitApi /\ [][NextApi]_vars

----------------------------------------------------------------------------
(* C18: boundary errors at the endpoints *)

\* the upload has a boundary error: an unsupported file type, more than 50MB,
\* or a table with zero rows
C18_BoundaryError(u) ==
    \/ ~(EndsWith(u.name, ".csv") \/ EndsWith(u.name, ".xlsx"))
    \/ u.size > 52428800
    \/ u.table.ok /\ u.table.rows = 0

\* C18: on both endpoints an upload with an unsupported file type, with more
\* than 50MB or with zero rows gets an HTTP error response and never reaches
\* clean_invoices or clean_stock
C18_BoundaryErrorsRejected ==
    C18_BoundaryError(arg)
        => /\ aux.invoked = "none"
           /\ pc = "responded" => result.status >= 400

\* what the endpoints do check: an unsupported file type is rejected with 400
\* by both before the payload is read, /api/clean rejects more than 50MB with
\* 413, and /api/stock/clean rejects zero rows with 400
C18_ChecksPresent ==
    /\ ~AllowedName(arg.name)
          => aux = NoRequest /\ (pc = "responded" => result.status = 400)
    /\ (arg.endpoint = "/api/clean" /\ AllowedName(arg.name) /\ arg.size > MAX)
          => aux.invoked = "none" /\ (pc = "responded" => result.status = 413)
    /\ (arg.endpoint = "/api/stock/clean" /\ AllowedName(arg.name) /\ arg.table.ok /\ arg.table.rows = 0)
          => aux.invoked = "none" /\ (pc = "responded" => result.status = 400)

\* /api/clean hands a table of zero rows to clean_invoices
C18_ZeroRowsReachInvoices ==
    /\ arg.endpoint = "/api/clean"
    /\ arg.table.ok
    /\ arg.table.rows = 0
    /\ aux.invoked = "clean_invoices"

\* /api/stock/clean hands a payload of more than 50MB to clean_stock
C18_OversizedReachesStock ==
    /\ arg.endpoint = "/api/stock/clean"
    /\ arg.size > MAX
    /\ aux.invoked = "clean_stock"

----------------------------------------------------------------------------
(* C19: distinct line items of one invoice *)

\* the configuration clean_invoices uses for an empty config
C19_DefaultConfig == cfg = InvoiceConfig(DEFAULT_FUZZY_THRESHOLD, TRUE, FALSE, TRUE)

\* rows q and r of t are two line items of one invoice: the same invoice_id,
\* customer_name and issue_date, none of them missing, and different
\* item_description
C19_DistinctLineItems(t, q, r) ==
    /\ \A c \in {"invoice_id", "customer_name", "issue_date", "item_description"} : HasCol(t, c)
    /\ \A c \in {"invoice_id", "customer_name", "issue_date"} :
          /\ ~IsNull(RowGet(t, q, c))
          /\ RowGet(t, q, c) = RowGet(t, r, c)
    /\ RowGet(t, q, "item_description") # RowGet(t, r, "item_description")

\* C19: with the default configuration, two rows that share invoice_id,
\* customer_name and issue_date and differ in item_description both survive
\* the exact pass and the fuzzy pass, also when their total_amount is the same
\* per-invoice aggregate
C19_LineItemsSurvive ==
    [][(pc \in {"i_exact", "i_fuzzy"} /\ C19_DefaultConfig)
          => \A q, r \in 1..NRows(df) :
                C19_DistinctLineItems(df, q, r)
                    => \E k \in 1..NRows(df') : df'.rows[k] = df.rows[r]]_vars

\* the exact pass alone never removes one of two distinct line items
C19_ExactPassKeepsLineItems ==
    [][(pc = "i_exact" /\ C19_DefaultConfig)
          => \A q, r \in 1..NRows(df) :
                C19_DistinctLineItems(df, q, r)
                    => \E k \in 1..NRows(df') : df'.rows[k] = df.rows[r]]_vars

\* the Widget and Bolt lines of invoice INV-1 went in and one line came out
C19_LineItemLost ==
    /\ Finished("invoices")
    /\ C19_DefaultConfig
    /\ NRows(df_in) = 2
    /\ RowGet(df_in, 1, "Invoice No") = Str("INV-1")
    /\ RowGet(df_in, 1, "Item") = Str("Widget")
    /\ RowGet(df_in, 2, "Invoice No") = Str("INV-1")
    /\ RowGet(df_in, 2, "Item") = Str("Bolt")
    /\ NRows(result.clean_df) = 1
    /\ RowGet(result.clean_df, 1, "item_description") = Str("Widget")
    /\ result.profile.duplicates_removed = 1

----------------------------------------------------------------------------
(* C20: the order of the rows *)

\* a is b restricted to some of its positions
RECURSIVE C20_IsSubseq(_, _)
C20_IsSubseq(a, b) ==
    IF a = <<>> THEN TRUE
    ELSE IF b = <<>> THEN FALSE
    ELSE IF Head(a) = Head(b) THEN C20_IsSubseq(Tail(a), Tail(b))
    ELSE C20_IsSubseq(a, Tail(b))

\* the columns whose cells a pipeline rewrites or creates
C20_Rewritten ==
    {"issue_date", "due_date", "quantity", "unit_price", "line_total", "tax_rate",
     "tax_amount", "total_before_tax", "total_amount", "currency",
     "qty_on_hand", "reorder_point", "expiry_date", "__issues"}

\* the input table under its mapped column names
C20_MappedInput ==
    [cols |-> IF cfg.kind = "invoices" THEN map_headers(df_in.cols) ELSE _map_headers(df_in.cols),
     rows |-> df_in.rows]

\* the rows of t reduced to the columns names, which no step rewrites
C20_Projection(t, names) ==
    [r \in 1..NRows(t) |-> [c \in names |-> RowGet(t, r, c)]]

\* the returned table is the input restricted to the surviving rows, as far
\* as the columns that are passed through show
C20_OutputInInputOrder(out) ==
    LET names == SeqRange(C20_MappedInput.cols) \ C20_Rewritten
    IN  C20_IsSubseq(C20_Projection(out, names), C20_Projection(C20_MappedInput, names))

\* the step only deletes rows
C20_OnlyDeletes == df'.cols = df.cols /\ C20_IsSubseq(df'.rows, df.rows)

\* C20 as stated: for every configuration of both pipelines the row filter
\* and both duplicate passes only delete rows and never reorder them, and the
\* cleaned table is the input row sequence restricted to the surviving rows
C20_InputOrderKept ==
    [][/\ pc \in {"i_filter", "i_exact", "i_fuzzy", "s_filter"} => C20_OnlyDeletes
       /\ pc' = "done" => C20_OutputInInputOrder(result'.clean_df)]_vars

\* the rows s are the rows of df in ascending (customer_name, issue_date)
\* order, rows with equal keys in their order in df
C20_StablySorted(p) ==
    LET s == [i \in 1..NRows(df) |-> df.rows[p[i]]]
    IN  \A i, j \in 1..NRows(df) :
           i < j => /\ ~C3_Before(df, s[j], s[i])
                    /\ ~C3_Before(df, s[i], s[j]) => p[i] < p[j]

\* C20 amended: the row filter and the exact pass of clean_invoices and the
\* row filter of clean_stock only delete rows; the fuzzy pass, when it runs
\* (drop_duplicates on and customer_name, total_amount, issue_date present),
\* first sorts the rows stably by (customer_name, issue_date) ascending and
\* then only deletes rows. The cleaned table of clean_stock, and of
\* clean_invoices when the fuzzy pass does not run, is the input row sequence
\* restricted to the surviving rows; when the fuzzy pass runs the cleaned
\* table is in ascending (customer_name, issue_date) order
C20_OrderKeptOrSorted ==
    [][/\ pc \in {"i_filter", "i_exact", "s_filter"} => C20_OnlyDeletes
       /\ pc = "i_fuzzy" =>
             IF C16_FuzzyRuns
             THEN /\ df'.cols = df.cols
                  /\ \E p \in Permutations(1..NRows(df)) :
                        /\ C20_StablySorted(p)
                        /\ C20_IsSubseq(df'.rows, [i \in 1..NRows(df) |-> df.rows[p[i]]])
             ELSE df' = df
       /\ pc' = "done" =>
             IF cfg.kind = "invoices" /\ cfg.drop_duplicates
                /\ \A c \in FUZZY_COLUMNS : HasCol(result'.clean_df, c)
             THEN \A i \in 2..NRows(result'.clean_df) :
                     ~C3_Before(result'.clean_df, result'.clean_df.rows[i],
                                result'.clean_df.rows[i - 1])
             ELSE C20_OutputInInputOrder(result'.clean_df)]_vars

\* the input rows Delta, Acme Inc came back as Acme Inc, Delta
C20_Witness ==
    /\ Finished("invoices")
    /\ cfg.drop_duplicates
    /\ NRows(df_in) = 2
    /\ RowGet(df_in, 1, "Customer") = Str("Delta")
    /\ RowGet(df_in, 2, "Customer") = Str("Acme Inc")
    /\ NRows(result.clean_df) = 2
    /\ RowGet(result.clean_df, 1, "customer_name") = Str("Acme Inc")
    /\ RowGet(result.clean_df, 2, "customer_name") = Str("Delta")

\* a stock table lost a row in the middle and kept the order of the others
C20_StockOrderKept ==
    /\ Finished("stock")
    /\ NRows(df_in) = 3
    /\ NRows(result.clean_df) = 2
    /\ RowGet(result.clean_df, 1, "sku") = RowGet(df_in, 1, "SKU")
    /\ RowGet(result.clean_df, 2, "sku") = RowGet(df_in, 3, "SKU")
    /\ RowGet(df_in, 1, "SKU") # RowGet(df_in, 3, "SKU")

----------------------------------------------------------------------------
(* backend/app/main.py: the token registry. The two upload handlers are
   coroutines of one event loop, so a call of _save_cleaned runs without
   another upload in between; api_download and share_preview are plain
   functions, which the framework runs on worker threads, so their steps
   interleave with the statements of _save_cleaned. *)

MaxUploads == 2
MaxRequests == 2

UploadIds == 1..MaxUploads

\* uuid4 draws a token never drawn before; the token MaxUploads + 1 is one no
\* upload ever draws; 0 stands for no token yet
FreshTokens == 1..MaxUploads
RequestTokens == 1..(MaxUploads + 1)

\* lines 54-55: os.path.join(TMP_DIR, f"{prefix}_{token}.{ext}")
out_path(call, token) ==
    [prefix |-> IF call.kind = "invoices" THEN "aibox_inv" ELSE "aibox_stock",
     token |-> token,
     ext |-> IF call.fmt = "xlsx" THEN "xlsx" ELSE "csv"]

\* lines 111 and 138: the calls _save_cleaned(result, fmt, prefix, kind)
SaveCalls == [kind : {"invoices", "stock"}, fmt : {"csv", "xlsx"}, token : {0}]

\* d[key] = value
DictSet(d, key, value) == [k \in DOMAIN d \cup {key} |-> IF k = key THEN value ELSE d[k]]

NoPath == [prefix |-> "", token |-> 0, ext |-> ""]

\* lines 48-50 at import, the files of TMP_DIR the handlers wrote (path to
\* "partial" or "complete"), the kind of the call that drew each token, and
\* the number of download and share requests served
NoTokens ==
    [kind |-> "tokens", TOKENS |-> <<>>, TOKENS_KIND |-> <<>>, files |-> <<>>,
     drawn |-> <<>>, served |-> 0]

NoResponse == [status |-> 0, token |-> 0, kind |-> "", file |-> ""]

InitTokens ==
    /\ pc = [up |-> [u \in UploadIds |-> "call"], rd |-> "idle"]
    /\ arg \in [up : [UploadIds -> SaveCalls], rd : {[endpoint |-> "", token |-> 0, path |-> NoPath]}]
    /\ ret = NoCall
    /\ df_in = NoTable
    /\ cfg = NoCfg
    /\ df = NoTable
    /\ aux = NoTokens
    /\ result = [up |-> [u \in UploadIds |-> 0], rd |-> NoResponse]

\* no other upload is inside _save_cleaned
LoopFree(u) == \A v \in UploadIds \ {u} : pc.up[v] \in {"call", "responded"}

\* line 53: token = str(uuid.uuid4())
SaveDrawToken(u) ==
    /\ pc.up[u] = "call"
    /\ LoopFree(u)
    /\ \E token \in FreshTokens \ DOMAIN aux.drawn :
          /\ arg' = [arg EXCEPT !.up[u].token = token]
          /\ aux' = [aux EXCEPT !.drawn = DictSet(@, token, arg.up[u].kind)]
    /\ pc' = [pc EXCEPT !.up[u] = "open"]
    /\ UNCHANGED <<ret, df_in, cfg, df, result>>

\* lines 57-60 and 63: the file is created, or the export or the open fails
\* and lines 64-65 raise HTTPException(500)
SaveOpenFile(u) ==
    /\ pc.up[u] = "open"
    /\ \/ /\ aux' = [aux EXCEPT !.files = DictSet(@, out_path(arg.up[u], arg.up[u].token), "partial")]
          /\ pc' = [pc EXCEPT !.up[u] = "write"]
          /\ UNCHANGED result
       \/ /\ pc' = [pc EXCEPT !.up[u] = "responded"]
          /\ result' = [result EXCEPT !.up[u] = 500]
          /\ UNCHANGED aux
    /\ UNCHANGED <<arg, ret, df_in, cfg, df>>

\* lines 61 and 63: the write completes, or fails and lines 64-65 raise
\* HTTPException(500), the file staying as far as it was written
SaveWriteFile(u) ==
    /\ pc.up[u] = "write"
    /\ \/ /\ aux' = [aux EXCEPT !.files = DictSet(@, out_path(arg.up[u], arg.up[u].token), "complete")]
          /\ pc' = [pc EXCEPT !.up[u] = "register"]
          /\ UNCHANGED result
       \/ /\ pc' = [pc EXCEPT !.up[u] = "responded"]
          /\ result' = [result EXCEPT !.up[u] = 500]
          /\ UNCHANGED aux
    /\ UNCHANGED <<arg, ret, df_in, cfg, df>>

\* line 67: TOKENS[token] = out_path
SaveRegisterPath(u) ==
    /\ pc.up[u] = "register"
    /\ aux' = [aux EXCEPT !.TOKENS = DictSet(@, arg.up[u].token, out_path(arg.up[u], arg.up[u].token))]
    /\ pc' = [pc EXCEPT !.up[u] = "register_kind"]
    /\ UNCHANGED <<arg, ret, df_in, cfg, df, result>>

\* lines 68-72: TOKENS_KIND[token] = kind, and the result is returned
SaveRegisterKind(u) ==
    /\ pc.up[u] = "register_kind"
    /\ aux' = [aux EXCEPT !.TOKENS_KIND = DictSet(@, arg.up[u].token, arg.up[u].kind)]
    /\ pc' = [pc EXCEPT !.up[u] = "responded"]
    /\ result' = [result EXCEPT !.up[u] = 200]
    /\ UNCHANGED <<arg, ret, df_in, cfg, df>>

\* path = TOKENS.get(token); not path or not os.path.exists(path)
Resolves(token) ==
    /\ token \in DOMAIN aux.TOKENS
    /\ aux.TOKENS[token] \in DOMAIN aux.files

\* lines 148-166: api_download
api_download ==
    /\ pc.rd = "idle"
    /\ aux.served < MaxRequests
    /\ \E token \in RequestTokens :
          /\ arg' = [arg EXCEPT !.rd = [endpoint |-> "/api/download", token |-> token,
                                        path |-> DictGet(aux.TOKENS, token, NoPath)]]
          /\ result' = [result EXCEPT !.rd =
                           IF Resolves(token)
                           THEN [status |-> 200, token |-> token, kind |-> "",
                                 file |-> aux.files[aux.TOKENS[token]]]
                           ELSE [NoResponse EXCEPT !.status = 404, !.token = token]]
    /\ aux' = [aux EXCEPT !.served = @ + 1]
    /\ UNCHANGED <<pc, ret, df_in, cfg, df>>

\* lines 171-175: share_preview looks the path up
share_preview ==
    /\ pc.rd = "idle"
    /\ aux.served < MaxRequests
    /\ \E token \in RequestTokens :
          /\ arg' = [arg EXCEPT !.rd = [endpoint |-> "/share", token |-> token,
                                        path |-> DictGet(aux.TOKENS, token, NoPath)]]
          /\ IF Resolves(token)
             THEN /\ pc' = [pc EXCEPT !.rd = "share_kind"]
                  /\ UNCHANGED result
             ELSE /\ result' = [result EXCEPT !.rd = [NoResponse EXCEPT !.status = 404, !.token = token]]
                  /\ UNCHANGED pc
    /\ aux' = [aux EXCEPT !.served = @ + 1]
    /\ UNCHANGED <<ret, df_in, cfg, df>>

\* lines 176-178: kind = TOKENS_KIND.get(token, "invoices") and the page is
\* rendered from the file
share_render ==
    /\ pc.rd = "share_kind"
    /\ result' = [result EXCEPT !.rd =
                     [status |-> 200, token |-> arg.rd.token,
                      kind |-> DictGet(aux.TOKENS_KIND, arg.rd.token, "invoices"),
                      file |-> aux.files[arg.rd.path]]]
    /\ pc' = [pc EXCEPT !.rd = "idle"]
    /\ UNCHANGED <<arg, ret, df_in, cfg, df, aux>>

NextTokens ==
    \/ \E u \in UploadIds :
          \/ SaveDrawToken(u)
          \/ SaveOpenFile(u)
          \/ SaveWriteFile(u)
          \/ SaveRegisterPath(u)
          \/ SaveRegisterKind(u)
    \/ api_download
    \/ share_preview
    \/ share_render

SpecTokens == InitTokens /\ [][NextTokens]_vars

----------------------------------------------------------------------------
(* C21: the token registry under interleaved requests *)

\* /api/download and /share find a file for the token
C21_Resolvable(token) ==
    token \in DOMAIN aux.TOKENS /\ aux.TOKENS[token] \in DOMAIN aux.files

\* the file of a resolvable token is completely written
C21_FileComplete ==
    \A token \in RequestTokens :
        C21_Resolvable(token) => aux.files[aux.TOKENS[token]] = "complete"

\* the kind entry of a resolvable token is the kind of the call that made it
C21_KindRegistered ==
    \A token \in RequestTokens :
        C21_Resolvable(token)
            => /\ token \in DOMAIN aux.TOKENS_KIND
               /\ aux.TOKENS_KIND[token] = aux.drawn[token]

\* an upload that answered 500 registered nothing
C21_FailedWriteRegistersNothing ==
    \A u \in UploadIds :
        result.up[u] = 500
            => arg.up[u].token \notin DOMAIN aux.TOKENS \cup DOMAIN aux.TOKENS_KIND

\* a request for a token that is not registered is answered 404; registered
\* tokens stay registered, so an answer other than 404 names a registered token
C21_UnregisteredIs404 ==
    /\ result.rd.status # 0 /\ result.rd.token \notin DOMAIN aux.TOKENS
          => result.rd.status = 404
    /\ pc.rd = "share_kind" => arg.rd.token \in DOMAIN aux.TOKENS

\* what a request was served: a complete file, and on /share the page of
\* the kind of the pipeline that produced the file
C21_ServedRight ==
    result.rd.status = 200
        => /\ result.rd.file = "complete"
           /\ arg.rd.endpoint = "/share" /\ pc.rd = "idle"
                 => result.rd.kind = aux.drawn[result.rd.token]

\* C21: under any interleaving of upload, download and share requests, a
\* token that /api/download or /share can resolve has a completely written
\* file and a TOKENS_KIND entry that is the kind of the pipeline that
\* produced it; a failed write registers no token; an unregistered token
\* yields 404
C21_TokenRegistry ==
    /\ C21_FileComplete
    /\ C21_KindRegistered
    /\ C21_FailedWriteRegistersNothing
    /\ C21_UnregisteredIs404
    /\ C21_ServedRight

\* every part of C21 that does not depend on TOKENS_KIND
C21_HoldsButForKind ==
    /\ C21_FileComplete
    /\ C21_FailedWriteRegistersNothing
    /\ C21_UnregisteredIs404
    /\ result.rd.status = 200 => result.rd.file = "complete"

\* once _save_cleaned has returned, the kind entry of its token is right
C21_KindRightAfterReturn ==
    \A u \in UploadIds :
        result.up[u] = 200
            => /\ arg.up[u].token \in DOMAIN aux.TOKENS_KIND
               /\ aux.TOKENS_KIND[arg.up[u].token] = arg.up[u].kind

\* /share rendered the file of a stock upload as an invoice table
C21_StockSharedAsInvoices ==
    /\ result.rd.status = 200
    /\ arg.rd.endpoint = "/share"
    /\ pc.rd = "idle"
    /\ aux.drawn[result.rd.token] = "stock"
    /\ result.rd.kind = "invoices"

----------------------------------------------------------------------------
(* C22: mapping a mapped header again *)

\* C22: header mapping is idempotent on every label: mapping the name a
\* mapper returned gives the same name again, for map_headers and for
\* _map_headers, also for unmapped labels whose spaces became underscores
C22_MappingIdempotent ==
    pc = "returned"
        => /\ ret.fn = "map_headers" => map_headers(<<ret.val.s>>)[1] = ret.val.s
           /\ ret.fn = "_map_headers" => _map_headers(<<ret.val.s>>)[1] = ret.val.s

\* _map_headers is idempotent on every label, and map_headers on every label
\* but those that become a synonym key only by the underscores: 'invoice num'
\* and 'inv id' in any letter case and spacing
C22_IdempotentButForUnderscoreKeys ==
    pc = "returned"
        => /\ ret.fn = "_map_headers" => _map_headers(<<ret.val.s>>)[1] = ret.val.s
           /\ (ret.fn = "map_headers" /\ ret.val.s \notin {"invoice_num", "inv_id"})
                 => map_headers(<<ret.val.s>>)[1] = ret.val.s
           /\ (ret.fn = "map_headers" /\ ret.val.s \in {"invoice_num", "inv_id"})
                 => /\ norm_header(PyStr(arg)) \in {"invoice num", "inv id"}
                    /\ map_headers(<<ret.val.s>>)[1] = "invoice_id"

\* the label 'invoice num' was mapped to invoice_num, which maps to invoice_id
C22_InvoiceNumMappedTwice ==
    /\ pc = "returned"
    /\ ret.fn = "map_headers"
    /\ arg = Str("invoice num")
    /\ ret.val = Str("invoice_num")
    /\ map_headers(<<"invoice_num">>)[1] = "invoice_id"

\* an unmapped label with a space went through both mappers and is a fixed
\* point afterwards
C22_UnmappedLabelFixed ==
    /\ pc = "returned"
    /\ arg = Str("My Column")
    /\ ret.val = Str("my_column")
    /\ map_headers(<<"my_column">>)[1] = "my_column"
    /\ _map_headers(<<"my_column">>)[1] = "my_column"

====
